---------------------------- MODULE Spec2Model ----------------------------
(***************************************************************************)
(* A model of roiextractors' NWB layer (nwbextractors.py): the metadata    *)
(* merge functions, the dynamic-table property accessors, the imaging      *)
(* write and read paths and the segmentation write and read paths, with    *)
(* the constructor of the sima segmentation extractor.                     *)
(*                                                                         *)
(* Six specifications share the module:                                    *)
(*   SpecMerge   - nwb_metadata_recursive_update and update_dict applied   *)
(*                 to bounded metadata trees;                              *)
(*   SpecTable   - set_dynamic_table_property / get_dynamic_table_property *)
(*                 on a small dynamic table;                               *)
(*   SpecImaging - NwbImagingExtractor.write_imaging and its three write   *)
(*                 steps against a container and a file;                   *)
(*   SpecEpochs  - NwbImagingExtractor.add_epochs against epoch tables;    *)
(*   SpecRead    - NwbImagingExtractor.__init__, get_frames and __del__    *)
(*                 on a file;                                              *)
(*   SpecSegmentation - NwbSegmentationExtractor.write_segmentation,       *)
(*                 __init__, the accepted and rejected lists, __del__,     *)
(*                 and SimaSegmentationExtractor.__init__.                 *)
(***************************************************************************)
EXTENDS Integers, Sequences, FiniteSets, TLC

VARIABLES
    \* --- metadata merge ---
    base,        \* the tree passed as metadata_base / d (a Python object: mutated in place by update_dict)
    base0,       \* the value of that tree when the call was made
    override,    \* the tree passed as metadata_input / u
    key_order,   \* iteration order of u.items() (insertion order of the caller's dict)
    result,      \* what the last call returned, or a raised error
    mpc,         \* which call ran last: "start", "merge_recursive", "deep_update"
    \* --- dynamic table ---
    dt,          \* the dynamic table: its id column and its named columns
    tcall,       \* the last accessor call: arguments, the table before it, outcome
    \* --- imaging write path ---
    file,        \* what is at save_path: nothing, a file that is no NWB file, or an NWB file
    nwb,         \* the NWBFile object the caller holds
    metadata,    \* the caller's metadata dict (None when the caller has none)
    imaging,     \* the imaging extractor: epochs, sampling rate, nwb_metadata if it has one
    wcall,       \* the last write_imaging call: arguments, state before it, outcome
    ncalls,      \* write_imaging calls made: all of them, and those on the caller's NWBFile
    \* --- imaging read path ---
    reader,      \* the NwbImagingExtractor object: how far construction got, its handle, what it read
    fcall,       \* the last get_frames call on it: frame_idxs, what it returned or raised
    \* --- segmentation ---
    segfile,     \* what is at the save_path / file_path of the segmentation calls
    segext,      \* the segmentation extractor to write: one model, or a multi aggregate of models
    segcall,     \* the last write_segmentation call: arguments, file before it, outcome; calls made
    segreader    \* the segmentation extractor constructed from a file: how far construction got, what it read

mergeVars == <<base, base0, override, key_order, result, mpc>>

tableVars == <<dt, tcall>>

imagingVars == <<file, nwb, metadata, imaging, wcall, ncalls>>

readVars == <<reader, fcall>>

segVars == <<segfile, segext, segcall, segreader>>

vars == <<mergeVars, tableVars, imagingVars, readVars, segVars>>

----------------------------------------------------------------------------
(***************************************************************************)
(* Python values.  A metadata tree is a scalar, a dict or a list; scalars  *)
(* are written as strings.  None is the scalar "None".                     *)
(***************************************************************************)
Scal(x) == [t |-> "scalar", v |-> x]
Dict(f) == [t |-> "dict", m |-> f]
List(s) == [t |-> "list", e |-> s]
Raised(kind) == [t |-> "raised", v |-> kind]

IsScalar(x) == x.t = "scalar"
IsDict(x) == x.t = "dict"
IsList(x) == x.t = "list"
IsRaised(x) == x.t = "raised"

Keys(d) == DOMAIN d.m

\* bool(x) as `if x:` evaluates it
Truthy(x) ==
    LET \* The scalars Python's bool() maps to False: 0, False, '' and None.
        FalsyScalars == {"0", "False", "", "None"}
    IN
    CASE IsScalar(x) -> x.v \notin FalsyScalars
      [] IsDict(x) -> Keys(x) # {}
      [] IsList(x) -> Len(x.e) > 0
      [] OTHER -> FALSE

Min(a, b) == IF a <= b THEN a ELSE b

----------------------------------------------------------------------------
(***************************************************************************)
(* nwb_metadata_recursive_update(metadata_base, metadata_input)            *)
(***************************************************************************)

\* off-by-one loop bound: range(list_len - 1)
list_len_short(base_val, input_val) ==
    IF Min(Len(base_val.e), Len(input_val.e)) > 0
    THEN Min(Len(base_val.e), Len(input_val.e)) - 1
    ELSE 0

\* list_len = min(len(base_val), len(metadata_input[base_key]))
list_len(base_val, input_val) == Min(Len(base_val.e), Len(input_val.e))

\* `if metadata_input.get(base_key):` - the key is there and its value is truthy
input_supplies(metadata_input, base_key) ==
    /\ base_key \in Keys(metadata_input)
    /\ Truthy(metadata_input.m[base_key])

\* override keys are merged in as well: dict(base, **override) semantics
merged_keys_union(metadata_base, metadata_input) ==
    Keys(metadata_base) \cup Keys(metadata_input)

\* `for base_key, base_val in return_dict.items()`: the keys the result holds
merged_keys(metadata_base, metadata_input) == Keys(metadata_base)

RECURSIVE nwb_metadata_recursive_update(_, _)
nwb_metadata_recursive_update(metadata_base, metadata_input) ==
    IF ~IsDict(metadata_base)
    THEN Raised("AttributeError")          \* deepcopy(x).items() on a non-dict
    ELSE IF Keys(metadata_base) = {}
    THEN metadata_base                     \* the loop body never runs
    ELSE IF ~IsDict(metadata_input)
    THEN Raised("AttributeError")          \* metadata_input.get on a non-dict
    ELSE
      LET base_of(k) == IF k \in Keys(metadata_base) THEN metadata_base.m[k]
                        ELSE metadata_input.m[k]
          merged_list(base_val, input_val) ==
              List([i \in 1..Len(base_val.e) |->
                      IF i <= list_len(base_val, input_val)
                      THEN nwb_metadata_recursive_update(base_val.e[i], input_val.e[i])
                      ELSE base_val.e[i]])
          at(k) ==
              LET base_val == base_of(k) IN
              IF k \in Keys(metadata_base) /\ input_supplies(metadata_input, k)
              THEN
                CASE IsDict(base_val) ->
                       nwb_metadata_recursive_update(base_val, metadata_input.m[k])
                  [] IsList(base_val) ->
                       IF IsList(metadata_input.m[k])
                       THEN merged_list(base_val, metadata_input.m[k])
                       ELSE base_val          \* continue
                  [] OTHER -> metadata_input.m[k]
              ELSE base_val
          failed(v) == IsRaised(v) \/ (IsList(v) /\ \E i \in 1..Len(v.e) : IsRaised(v.e[i]))
          return_m == [k \in merged_keys(metadata_base, metadata_input) |-> at(k)]
      IN IF \E k \in DOMAIN return_m : failed(return_m[k])
         THEN Raised("AttributeError")
         ELSE Dict(return_m)

----------------------------------------------------------------------------
(***************************************************************************)
(* update_dict(d, u): d is mutated in place, so a call that raises leaves  *)
(* the writes made before the error.  The result is the pair of d's final  *)
(* value and the error raised, if any.                                     *)
(***************************************************************************)
EmptyMap == [k \in {} |-> Scal("None")]

\* d[k] = x
SetItem(d, k, x) == Dict([j \in Keys(d) \cup {k} |-> IF j = k THEN x ELSE d.m[j]])

RECURSIVE SelectKeys(_, _)
SelectKeys(order, ks) ==
    IF order = <<>> THEN <<>>
    ELSE IF Head(order) \in ks
         THEN <<Head(order)>> \o SelectKeys(Tail(order), ks)
         ELSE SelectKeys(Tail(order), ks)

\* u.items(): u's keys in the caller's insertion order
items_order(u, order) == SelectKeys(order, Keys(u))

RECURSIVE update_dict_items(_, _, _, _)
update_dict_items(d, u, ks, order) ==
    IF ks = <<>>
    THEN [d |-> d, err |-> "none"]                           \* return d
    ELSE
      LET k == Head(ks)
          v == u.m[k]
      IN IF IsDict(v)                                        \* isinstance(v, abc.Mapping)
         THEN IF ~IsDict(d)
              THEN [d |-> d, err |-> "AttributeError"]        \* d.get on a scalar or a list
              ELSE
                LET had == k \in Keys(d)
                    sub == update_dict_items(IF had THEN d.m[k] ELSE Dict(EmptyMap),
                                             v, items_order(v, order), order)
                IN IF sub.err # "none"
                   THEN [d |-> IF had THEN SetItem(d, k, sub.d) ELSE d, err |-> sub.err]
                   ELSE update_dict_items(SetItem(d, k, sub.d), u, Tail(ks), order)
         ELSE IF ~IsDict(d)
              THEN [d |-> d, err |-> "TypeError"]             \* d[k] = v on a scalar or a list
              ELSE update_dict_items(SetItem(d, k, v), u, Tail(ks), order)

update_dict(d, u, order) == update_dict_items(d, u, items_order(u, order), order)

----------------------------------------------------------------------------
(***************************************************************************)
(* The trees the merge functions are applied to.                           *)
(***************************************************************************)
MaxListLen == 2

Map1(k, x) == [j \in {k} |-> x]
Map2(k1, x1, k2, x2) == [j \in {k1, k2} |-> IF j = k1 THEN x1 ELSE x2]

SeqsUpTo(S, n) == UNION { [1..m -> S] : m \in 0..n }

Trees ==
    LET TopKeys == {"a", "b"}
        TopValues ==
            LET InnerDicts ==
                    { Dict(EmptyMap),
                      Dict(Map1("c", Scal("0"))),
                      Dict(Map1("c", Scal("2"))),
                      Dict(Map1("c", Scal("5"))),
                      Dict(Map2("c", Scal("2"), "d", Scal("5"))) }
                Lists ==
                    LET ListElems == { Dict(Map1("c", Scal("2"))), Dict(Map2("c", Scal("5"), "d", Scal("5"))) }
                    IN  { List(s) : s \in SeqsUpTo(ListElems, MaxListLen) }
                \* "0" stands for the falsy scalars (0, False, '')
                Scalars == {Scal("0"), Scal("1"), Scal("9")}
            IN  Scalars \cup InnerDicts \cup Lists
    IN  { Dict(f) : f \in UNION { [ks -> TopValues] : ks \in SUBSET TopKeys } }

KeyOrders == { <<"a", "b", "c", "d">>, <<"b", "a", "d", "c">> }

----------------------------------------------------------------------------
\* result = nwb_metadata_recursive_update(base, override)
MergeRecursive ==
    LET \* return_dict = deepcopy(metadata_base): every write goes to the copy, so the
        \* caller's tree is what it was
        base_after_merge(metadata_base, metadata_input) == metadata_base
    IN
    /\ mpc = "start"
    /\ result' = nwb_metadata_recursive_update(base, override)
    /\ base' = base_after_merge(base, override)
    /\ mpc' = "merge_recursive"
    /\ UNCHANGED <<base0, override, key_order, tableVars, imagingVars, readVars, segVars>>

\* result = update_dict(base, override)
DeepUpdate ==
    /\ mpc = "start"
    /\ LET r == update_dict(base, override, key_order)
       IN /\ base' = r.d
          /\ result' = IF r.err = "none" THEN r.d ELSE Raised(r.err)
    /\ mpc' = "deep_update"
    /\ UNCHANGED <<base0, override, key_order, tableVars, imagingVars, readVars, segVars>>

NextMerge == MergeRecursive \/ DeepUpdate

----------------------------------------------------------------------------
(***************************************************************************)
(* Claims about the merge functions (checked under SpecMerge).             *)
(***************************************************************************)
RECURSIVE KeysFollow(_, _)
\* r has b's key set wherever b has a nesting level: b's dicts, and the dicts
\* that are elements of b's lists
KeysFollow(r, b) ==
    CASE IsDict(b) -> /\ IsDict(r)
                      /\ Keys(r) = Keys(b)
                      /\ \A k \in Keys(b) : KeysFollow(r.m[k], b.m[k])
      [] IsList(b) -> /\ IsList(r)
                      /\ Len(r.e) = Len(b.e)
                      /\ \A i \in 1..Len(b.e) : KeysFollow(r.e[i], b.e[i])
      [] OTHER -> TRUE

C2_ScalarTakesOverride ==
    (mpc = "merge_recursive" /\ IsDict(result)) =>
        \A k \in Keys(base0) \cap Keys(override) :
            IsScalar(base0.m[k]) => result.m[k] = override.m[k]

\* C3: for a key whose value is a list in base and in override, the result's
\* list has len(base) elements, the first min(len(base), len(override)) being
\* merge_recursive(base[i], override[i]) and the others base[i]; the caller's
\* base tree is what it was before the call.
C3_ListsElementWise ==
    mpc = "merge_recursive" =>
        /\ base = base0
        /\ ~IsRaised(result) =>
              \A k \in Keys(base0) \cap Keys(override) :
                 (IsList(base0.m[k]) /\ IsList(override.m[k])) =>
                    LET b == base0.m[k].e
                        o == override.m[k].e
                        r == result.m[k]
                    IN /\ IsList(r)
                       /\ Len(r.e) = Len(b)
                       /\ \A i \in 1..Len(b) :
                             r.e[i] = IF i <= Min(Len(b), Len(o))
                                      THEN nwb_metadata_recursive_update(b[i], o[i])
                                      ELSE b[i]

\* C3's case: lists of different lengths on both sides, the aligned element
\* merged (c: 2 -> 5, d not added), the trailing base element kept
C3_Witness ==
    /\ mpc = "merge_recursive"
    /\ base0 = Dict(Map1("a", List(<<Dict(Map1("c", Scal("2"))), Dict(Map1("c", Scal("2")))>>)))
    /\ override = Dict(Map1("a", List(<<Dict(Map2("c", Scal("5"), "d", Scal("5")))>>)))
    /\ result = Dict(Map1("a", List(<<Dict(Map1("c", Scal("5"))), Dict(Map1("c", Scal("2")))>>)))
    /\ base = base0

\* C4: deep_update(base, update) leaves base with, for every key k of update,
\* deep_update(base[k], update[k]) when both are dicts and exactly update[k]
\* in every other case, and with its other keys unchanged.
C4_DeepUpdateWrites ==
    mpc = "deep_update" =>
        /\ ~IsRaised(result)
        /\ IsDict(base)
        /\ Keys(base) = Keys(base0) \cup Keys(override)
        /\ \A k \in Keys(override) :
              IF k \in Keys(base0) /\ IsDict(base0.m[k]) /\ IsDict(override.m[k])
              THEN base.m[k] = update_dict(base0.m[k], override.m[k], key_order).d
              ELSE base.m[k] = override.m[k]
        /\ \A k \in Keys(base0) \ Keys(override) : base.m[k] = base0.m[k]

----------------------------------------------------------------------------
(***************************************************************************)
(* The dynamic table: dt.ids is the id column, dt.cols maps each column    *)
(* name the table has to its cells (data) and whether it is indexed.       *)
(***************************************************************************)
SeqToSet(s) == { s[i] : i \in 1..Len(s) }

\* list.index(x): the first position holding x
IndexOf(s, x) == CHOOSE i \in 1..Len(s) : s[i] = x /\ \A j \in 1..(i - 1) : s[j] # x

\* the position taken from the end of the id list
position_from_end(ids, row_id) == Len(ids) + 1 - IndexOf(ids, row_id)

\* ids.index(row_id)
position_of(ids, row_id) == IndexOf(ids, row_id)

RECURSIVE write_cells(_, _, _, _)
\* for (row_id, value) in zip(row_ids, values): data[ids.index(row_id)] = value
write_cells(data, ids, row_ids, values) ==
    IF row_ids = <<>> \/ values = <<>>
    THEN data
    ELSE write_cells([data EXCEPT ![position_of(ids, Head(row_ids))] = Head(values)],
                     ids, Tail(row_ids), Tail(values))

\* the size check skipped
length_check_skipped(row_ids, values, index) == FALSE

\* `len(row_ids) != len(values) and index is False`
length_check_fails(row_ids, values, index) ==
    Len(row_ids) # Len(values) /\ index = FALSE

\* dynamic_table.add_column(name, description, data, index): the table refuses
\* a column whose length is not the number of rows
add_column(table, name, data, index) ==
    IF Len(data) # Len(table.ids)
    THEN [table |-> table, err |-> "ValueError"]
    ELSE [table |-> [table EXCEPT !.cols =
                        [n \in DOMAIN table.cols \cup {name} |->
                            IF n = name THEN [data |-> data, indexed |-> index]
                            ELSE table.cols[n]]],
          err |-> "none"]

\* set_dynamic_table_property(dynamic_table, ids, row_ids, property_name, values,
\*                            index, default_value): the table afterwards and
\* the error raised, if any
set_dynamic_table_property(table, ids, row_ids, row_ids_are_ints, property_name, name_is_str, values, index, default_value) ==
    IF ~row_ids_are_ints
    THEN [table |-> table, err |-> "TypeError"]
    ELSE IF \E i \in 1..Len(row_ids) : row_ids[i] \notin SeqToSet(ids)
    THEN [table |-> table, err |-> "ValueError"]
    ELSE IF ~name_is_str
    THEN [table |-> table, err |-> "TypeError"]
    ELSE IF length_check_fails(row_ids, values, index)
    THEN [table |-> table, err |-> "ValueError"]
    ELSE IF index = FALSE
    THEN IF property_name \in DOMAIN table.cols
         THEN [table |-> [table EXCEPT !.cols[property_name].data =
                             write_cells(@, ids, row_ids, values)],
               err |-> "none"]
         ELSE LET col_data == write_cells([i \in 1..Len(ids) |-> default_value],
                                          ids, row_ids, values)
              IN add_column(table, property_name, col_data, index)
    ELSE IF property_name \in DOMAIN table.cols
         THEN [table |-> table, err |-> "NotImplementedError"]
         ELSE add_column(table, property_name, values, index)

RECURSIVE cells_in_table_order(_, _, _)
\* the requested cells picked in the table's row order
cells_in_table_order(data, all_row_ids, row_ids) ==
    IF all_row_ids = <<>>
    THEN <<>>
    ELSE (IF Head(all_row_ids) \in SeqToSet(row_ids) THEN <<Head(data)>> ELSE <<>>)
         \o cells_in_table_order(Tail(data), Tail(all_row_ids), row_ids)

\* [dynamic_table[property_name][all_row_ids.index(x)] for x in row_ids]
cells_in_request_order(data, all_row_ids, row_ids) ==
    [k \in 1..Len(row_ids) |-> data[IndexOf(all_row_ids, row_ids[k])]]

\* get_dynamic_table_property(dynamic_table, row_ids=None, property_name): the
\* list returned and the error raised, if any
get_dynamic_table_property(table, row_ids_given, row_ids_arg, property_name) ==
    LET all_row_ids == table.ids
        row_ids == IF row_ids_given THEN row_ids_arg ELSE all_row_ids
    IN IF row_ids = <<>>
       THEN [ret |-> <<>>, err |-> "none"]
       ELSE IF property_name \notin DOMAIN table.cols
       THEN [ret |-> <<>>, err |-> "KeyError"]
       ELSE IF \E k \in 1..Len(row_ids) : row_ids[k] \notin SeqToSet(all_row_ids)
       THEN [ret |-> <<>>, err |-> "ValueError"]
       ELSE [ret |-> cells_in_request_order(table.cols[property_name].data,
                                            all_row_ids, row_ids),
             err |-> "none"]

----------------------------------------------------------------------------
MaxRows == 2

\* the table's ids: unique, neither sorted nor 0-based
TableIds == [i \in 1..MaxRows |-> 10 * (MaxRows + 1 - i)]
RowIdArgs ==
    LET \* the ids a caller passes: the table's and one the table does not have
        ArgIds == SeqToSet(TableIds) \cup {99}
    IN  SeqsUpTo(ArgIds, 2)
CellValues == {"x", "y"}
ColumnNames == {"p", "q"}
DefaultValue == "nan"
NoColumns == [n \in {} |-> [data |-> <<>>, indexed |-> FALSE]]

NoCall ==
    [op |-> "none", row_ids |-> <<>>, row_ids_given |-> TRUE, row_ids_are_ints |-> TRUE,
     name |-> "p", name_is_str |-> TRUE, values |-> <<>>, index |-> FALSE,
     default_value |-> DefaultValue, pre |-> [ids |-> TableIds, cols |-> NoColumns],
     ret |-> <<>>, err |-> "none"]

\* a call is made once the caller has taken the previous call's outcome
SetProperty ==
    LET ValueArgs == SeqsUpTo(CellValues, 2)
    IN
    /\ tcall.op = "none"
    /\ \E row_ids \in RowIdArgs, values \in ValueArgs, name \in ColumnNames,
       index \in BOOLEAN, row_ids_are_ints \in BOOLEAN, name_is_str \in BOOLEAN :
        LET r == set_dynamic_table_property(dt, dt.ids, row_ids, row_ids_are_ints, name,
                                            name_is_str, values, index, DefaultValue)
        IN /\ dt' = r.table
           /\ tcall' = [op |-> "set", row_ids |-> row_ids, row_ids_given |-> TRUE,
                        row_ids_are_ints |-> row_ids_are_ints, name |-> name,
                        name_is_str |-> name_is_str, values |-> values, index |-> index,
                        default_value |-> DefaultValue, pre |-> dt, ret |-> <<>>,
                        err |-> r.err]
           /\ UNCHANGED <<mergeVars, imagingVars, readVars, segVars>>

GetProperty ==
    /\ tcall.op = "none"
    /\ \E row_ids \in RowIdArgs, row_ids_given \in BOOLEAN, name \in ColumnNames :
        LET r == get_dynamic_table_property(dt, row_ids_given, row_ids, name)
        IN /\ (~row_ids_given => row_ids = <<>>)
           /\ dt' = dt
           /\ tcall' = [op |-> "get", row_ids |-> row_ids, row_ids_given |-> row_ids_given,
                        row_ids_are_ints |-> TRUE, name |-> name, name_is_str |-> TRUE,
                        values |-> <<>>, index |-> FALSE, default_value |-> DefaultValue,
                        pre |-> dt, ret |-> r.ret, err |-> r.err]
           /\ UNCHANGED <<mergeVars, imagingVars, readVars, segVars>>

\* the caller takes the outcome of the call; the table stays as the call left it
ReturnToCaller ==
    /\ tcall.op # "none"
    /\ tcall' = [NoCall EXCEPT !.pre = dt]
    /\ UNCHANGED <<dt, mergeVars, imagingVars, readVars, segVars>>

NextTable == SetProperty \/ GetProperty \/ ReturnToCaller

----------------------------------------------------------------------------
(***************************************************************************)
(* The container (an NWBFile): devices, imaging planes and acquisition are *)
(* name-keyed, insertion-ordered collections that refuse a second entry of *)
(* a name; epochs is None until the first epoch is added.  Metadata trees  *)
(* carry the entries the write steps read: the names.                      *)
(***************************************************************************)
NoEpochs == [exists |-> FALSE, rows |-> <<>>]

NewNWBFile == [devices |-> <<>>, imaging_planes |-> <<>>, acquisition |-> <<>>, epochs |-> NoEpochs]

SeriesNames(nwbfile) == { nwbfile.acquisition[i].name : i \in 1..Len(nwbfile.acquisition) }

NameOf(d) == d.m["name"].v

\* metadata[k1][k2] = x
SetIn(md, k1, k2, x) == SetItem(md, k1, SetItem(md.m[k1], k2, x))

Named(n) == Dict(Map1("name", Scal(n)))

\* if 'Ophys' not in metadata: metadata['Ophys'] = dict()
with_ophys(md) == IF "Ophys" \notin Keys(md) THEN SetItem(md, "Ophys", Dict(EmptyMap)) ELSE md

RECURSIVE create_devices(_, _)
\* for dev in metadata['Ophys']['Device']:
\*     if dev['name'] not in nwbfile.devices: nwbfile.create_device(name=dev['name'])
create_devices(devices, devs) ==
    IF devs = <<>>
    THEN devices
    ELSE create_devices(IF NameOf(Head(devs)) \in SeqToSet(devices)
                        THEN devices
                        ELSE Append(devices, NameOf(Head(devs))),
                        Tail(devs))

\* if key not in metadata['Ophys']: metadata['Ophys'][key] = default
with_default(md, key, default) ==
    IF key \notin Keys(md.m["Ophys"]) THEN SetIn(md, "Ophys", key, default) ELSE md

\* the loop of add_devices, on the metadata with its defaults in place
devices_created(nwbfile, md) ==
    [nwbfile |-> [nwbfile EXCEPT !.devices = create_devices(@, md.m["Ophys"].m["Device"].e)],
     metadata |-> md,
     err |-> "none"]

\* NwbImagingExtractor.add_devices(imaging, nwbfile, metadata)
add_devices(nwbfile, md) ==
    devices_created(nwbfile, with_default(with_ophys(md), "Device", List(<<Named("Device")>>)))

\* if 'Ophys' not in metadata or 'TwoPthotonSeries' not in metadata['Ophys']:
\*     metadata['Ophys']['TwoPhotonSeries'] = [{'name': 'TwoPhotonSeries', 'description': ...}]
with_series_entry(md) ==
    LET \* the key add_two_photon_series looks for before it writes the default series entry
        series_key_tested == "TwoPthotonSeries"
    IN
    IF "Ophys" \notin Keys(md) \/ series_key_tested \notin Keys(md.m["Ophys"])
    THEN SetIn(md, "Ophys", "TwoPhotonSeries",
               List(<<Dict(Map2("name", Scal("TwoPhotonSeries"),
                                "description", Scal("optical_series_description")))>>))
    ELSE md

\* opts = metadata['Ophys']['TwoPhotonSeries'][0]
series_opts(md) == md.m["Ophys"].m["TwoPhotonSeries"].e[1]

\* metadata['Ophys']['ImagingPlane'][0] =
\*     update_dict(metadata['Ophys']['ImagingPlane'][0], imaging_meta)
with_plane_meta(nwbfile, md) ==
    LET \* imaging_meta = {'optical_channel': ..., 'imaging_rate': rate, 'device': device}
        imaging_meta ==
            Dict([k \in {"optical_channel", "imaging_rate", "device"} |->
                    CASE k = "optical_channel" -> Scal(NameOf(md.m["Ophys"].m["OpticalChannel"].e[1]))
                      [] k = "imaging_rate" -> Scal("sampling_frequency")
                      [] OTHER -> Scal(nwbfile.devices[1])])
    IN
    SetIn(md, "Ophys", "ImagingPlane",
          List([md.m["Ophys"].m["ImagingPlane"].e EXCEPT
                  ![1] = update_dict(@, imaging_meta,
                                     <<"optical_channel", "imaging_rate", "device">>).d]))

\* the body of `if opts['name'] not in nwb_es_names:` once the defaults of the
\* optical channel and the imaging plane are in the metadata
series_created(img, nwbfile, md) ==
    LET \* create_imaging_plane, TwoPhotonSeries(...) and add_acquisition, on the
        \* metadata with the plane's entry completed
        series_attached(plane_name, series_name) ==
            LET \* nwbfile.create_imaging_plane(name=...) raises ValueError when the file has a plane of that name
                plane_is_refused == plane_name \in SeqToSet(nwbfile.imaging_planes)
            IN
            IF plane_is_refused
            THEN [nwbfile |-> nwbfile, metadata |-> md, err |-> "ValueError"]
            ELSE [nwbfile |->
                     [nwbfile EXCEPT
                        !.imaging_planes = Append(@, plane_name),
                        !.acquisition = Append(@, [name |-> series_name,
                                                   imaging_plane |-> plane_name,
                                                   rate |-> img.rate])],
                  metadata |-> md,
                  err |-> "none"]
    IN
    series_attached(NameOf(md.m["Ophys"].m["ImagingPlane"].e[1]), NameOf(series_opts(md)))

\* add_two_photon_series from `nwb_es_names = [...]` on
series_ensured(img, nwbfile, md) ==
    IF NameOf(series_opts(md)) \in SeriesNames(nwbfile)
    THEN [nwbfile |-> nwbfile, metadata |-> md, err |-> "none"]
    ELSE IF nwbfile.devices = <<>>                    \* list(nwbfile.devices.keys())[0]
    THEN [nwbfile |-> nwbfile, metadata |-> md, err |-> "IndexError"]
    ELSE series_created(img, nwbfile,
             with_plane_meta(nwbfile,
                 with_default(with_default(md, "OpticalChannel",
                                           List(<<Named("OpticalChannel")>>)),
                              "ImagingPlane", List(<<Named("ImagingPlane")>>))))

\* NwbImagingExtractor.add_two_photon_series(imaging, nwbfile, metadata)
add_two_photon_series(img, nwbfile, md) ==
    series_ensured(img, nwbfile, with_series_entry(with_ophys(md)))

\* imaging.frame_to_time(frame): float(frame / sampling_frequency + start_time).
\* Times are kept in milliseconds; the quotient is rounded to the nearest one,
\* as a float quotient is rounded to the nearest representable value.
frame_to_time(img, frame) == (2 * frame * 1000 + img.rate) \div (2 * img.rate) + img.start_time

\* the tags column: one list of tags per row
TagsColumn(epochs) == [i \in 1..Len(epochs.rows) |-> epochs.rows[i].tags]

\* the row add_epoch(start_time, stop_time, tags=name) makes
epoch_row(img, ep) ==
    [tags |-> <<ep.name>>,
     start_time |-> frame_to_time(img, ep.start_frame),
     stop_time |-> frame_to_time(img, ep.end_frame)]

\* add_epoch whatever the table holds
epoch_appended(epochs, row) == [exists |-> TRUE, rows |-> Append(epochs.rows, row)]

\* one pass of the loop of add_epochs: add the epoch, or update the row tagged [name]
epoch_added(epochs, row) ==
    IF ~epochs.exists                                  \* nwbfile.epochs is None
    THEN [exists |-> TRUE, rows |-> <<row>>]
    ELSE IF row.tags \in SeqToSet(TagsColumn(epochs))
         THEN [epochs EXCEPT !.rows[IndexOf(TagsColumn(epochs), row.tags)] = row]
         ELSE [epochs EXCEPT !.rows = Append(@, row)]

RECURSIVE add_epochs_from(_, _, _)
\* for (name, ep) in imaging._epochs.items(): ...
add_epochs_from(img, epochs, eps) ==
    IF eps = <<>>
    THEN epochs
    ELSE add_epochs_from(img, epoch_added(epochs, epoch_row(img, Head(eps))), Tail(eps))

\* NwbImagingExtractor.add_epochs(imaging, nwbfile)
add_epochs(img, nwbfile) == [nwbfile EXCEPT !.epochs = add_epochs_from(img, @, img.epochs)]

\* add_epochs after add_two_photon_series returned t; nothing if it raised
steps_after_series(img, t) ==
    IF t.err # "none"
    THEN t
    ELSE [nwbfile |-> add_epochs(img, t.nwbfile), metadata |-> t.metadata, err |-> "none"]

\* the three write steps in the order write_imaging makes them; a step that
\* raises ends the sequence with what the earlier steps did
write_steps(img, nwbfile, md) ==
    LET \* add_two_photon_series and add_epochs after add_devices returned d
        steps_after_devices(d) ==
            steps_after_series(img, add_two_photon_series(img, d.nwbfile, d.metadata))
    IN  steps_after_devices(add_devices(nwbfile, md))

\* the 'r+' branch of write_imaging: nwbfile = io.read(); the three steps sit in
\* the else branch, so none of them runs
steps_on_existing_file(img, nwbfile, md) == [nwbfile |-> nwbfile, metadata |-> md, err |-> "none"]

\* the assertion dropped
exclusive_args_unchecked(save_path_given, nwbfile_given) == TRUE

\* assert save_path is None or nwbfile is None
exclusive_args_ok(save_path_given, nwbfile_given) == ~save_path_given \/ ~nwbfile_given

IsNone(x) == IsScalar(x) /\ x.v = "None"

\* what a call leaves: the error raised if any, the file, the caller's NWBFile,
\* the caller's metadata and the extractor, the handles opened and closed.
\* `metadata` is the extractor's nwb_metadata object when it has one (line 400),
\* else the caller's dict, else a dict of the call's own: md, the value the
\* call leaves in it, goes to that object.
Outcome(err, f, nwbfile, md, md_arg, img, opened) ==
    LET \* update_dict stores the lists of the caller's dict in imaging.nwb_metadata
        \* (d[k] = v), so the two dicts share them: what add_two_photon_series assigns
        \* to metadata['Ophys']['ImagingPlane'][0] shows in the caller's list too
        shared_lists ==
            IF /\ "Ophys" \in Keys(md_arg)
               /\ "ImagingPlane" \in Keys(md_arg.m["Ophys"])
               /\ "Ophys" \in Keys(md)
               /\ "ImagingPlane" \in Keys(md.m["Ophys"])
            THEN SetIn(md_arg, "Ophys", "ImagingPlane", md.m["Ophys"].m["ImagingPlane"])
            ELSE md_arg
    IN
    [err |-> err, file |-> f, nwb |-> nwbfile,
     metadata |-> IF IsNone(md_arg) THEN md_arg
                  ELSE IF img.has_nwb_metadata THEN shared_lists
                  ELSE md,
     imaging |-> IF img.has_nwb_metadata THEN [img EXCEPT !.nwb_metadata = md] ELSE img,
     opened |-> opened, closed |-> opened]

\* write_imaging from `if nwbfile is None:` on, md being `metadata` at that point
write_imaging_to(img, save_path_given, nwbfile_kind, md, md_arg, f, nwbfile, leaves_file) ==
    LET \* with NWBHDF5IO(save_path, mode='w') as io: a new NWBFile, the three steps
        \* (r), io.write(nwbfile); leaves_file: the file opened for writing is on disk
        \* although a step raised before io.write
        new_file_written(r) ==
            Outcome(r.err,
                    IF r.err = "none" THEN [state |-> "nwb", content |-> r.nwbfile]
                    ELSE IF leaves_file THEN [state |-> "not_nwb", content |-> NewNWBFile]
                    ELSE f,
                    nwbfile, r.metadata, md_arg, img, 1)
        \* with NWBHDF5IO(save_path, mode='r+') as io: nwbfile = io.read(); io.write(nwbfile)
        existing_file_written(r) ==
            Outcome(r.err, [state |-> "nwb", content |-> r.nwbfile], nwbfile, r.metadata, md_arg, img, 1)
    IN
    IF nwbfile_kind = "none"
    THEN IF ~save_path_given                          \* os.path.exists(None)
         THEN Outcome("TypeError", f, nwbfile, md, md_arg, img, 0)
         ELSE IF f.state = "absent"                   \* read_mode = 'w'
         THEN new_file_written(write_steps(img, NewNWBFile, md))
         ELSE IF f.state = "not_nwb"                  \* read_mode = 'r+', io.read() fails
         THEN Outcome("OSError", f, nwbfile, md, md_arg, img, 1)
         ELSE existing_file_written(steps_on_existing_file(img, f.content, md))
    ELSE Outcome(write_steps(img, nwbfile, md).err, f, write_steps(img, nwbfile, md).nwbfile,
                 write_steps(img, nwbfile, md).metadata, md_arg, img, 0)

\* the caller's dict, or the dict() that stands in for None
Untouched(md_arg) == IF IsNone(md_arg) THEN Dict(EmptyMap) ELSE md_arg

\* if metadata is None: metadata = dict()
\* if hasattr(imaging, 'nwb_metadata'): metadata = update_dict(imaging.nwb_metadata, metadata)
merged_metadata(img, md_arg) ==
    LET \* insertion order of the keys of the metadata dicts
        MetadataKeyOrder == <<"NWBFile", "Ophys", "Device", "TwoPhotonSeries", "OpticalChannel", "ImagingPlane", "name", "description", "session_description">>
    IN
    IF img.has_nwb_metadata
    THEN update_dict(img.nwb_metadata, Untouched(md_arg), MetadataKeyOrder)
    ELSE [d |-> Untouched(md_arg), err |-> "none"]

\* `metadata` after lines 397-400
effective_metadata(img, md_arg) == merged_metadata(img, md_arg).d

\* NwbImagingExtractor.write_imaging(imaging, save_path, nwbfile, metadata)
write_imaging(img, save_path_given, nwbfile_kind, md_arg, f, nwbfile, leaves_file) ==
    IF nwbfile_kind = "other"                      \* assert isinstance(nwbfile, NWBFile)
    THEN Outcome("AssertionError", f, nwbfile,
                 IF img.has_nwb_metadata THEN img.nwb_metadata ELSE Untouched(md_arg),
                 md_arg, img, 0)
    ELSE IF ~exclusive_args_ok(save_path_given, nwbfile_kind # "none")
    THEN Outcome("AssertionError", f, nwbfile,
                 IF img.has_nwb_metadata THEN img.nwb_metadata ELSE Untouched(md_arg),
                 md_arg, img, 0)
    ELSE IF merged_metadata(img, md_arg).err # "none"
    THEN Outcome(merged_metadata(img, md_arg).err, f, nwbfile, effective_metadata(img, md_arg),
                 md_arg, img, 0)
    ELSE write_imaging_to(img, save_path_given, nwbfile_kind, effective_metadata(img, md_arg),
                          md_arg, f, nwbfile, leaves_file)

----------------------------------------------------------------------------
(***************************************************************************)
(* The inputs of the imaging write path.                                   *)
(***************************************************************************)
MaxCalls == 3

Series(n, plane) == [name |-> n, imaging_plane |-> plane, rate |-> 10]

\* the NWBFile objects a caller may hold, and the NWB files that may be at save_path
Containers ==
    { NewNWBFile,
      \* a file with a device only
      [NewNWBFile EXCEPT !.devices = <<"Scope">>],
      \* a file with a device and an imaging plane, as a segmentation write leaves it
      [NewNWBFile EXCEPT !.devices = <<"Microscope">>, !.imaging_planes = <<"ImagingPlane">>],
      \* a file an earlier imaging write produced, with an epoch of other times
      [devices |-> <<"Device">>, imaging_planes |-> <<"ImagingPlane">>,
       acquisition |-> <<Series("TwoPhotonSeries", "ImagingPlane")>>,
       epochs |-> [exists |-> TRUE,
                   rows |-> <<[tags |-> <<"ep1">>, start_time |-> 100, stop_time |-> 300]>>]] }

Files == { [state |-> "absent", content |-> NewNWBFile] }
         \cup { [state |-> "nwb", content |-> c] : c \in Containers }

\* the metadata a caller passes
MetadataArgs ==
    LET Map3(k1, x1, k2, x2, k3, x3) == [j \in {k1, k2, k3} |-> IF j = k1 THEN x1 ELSE IF j = k2 THEN x2 ELSE x3]
    IN
    { Scal("None"),
      Dict(EmptyMap),
      Dict(Map1("Ophys", Dict(Map1("Device", List(<<Named("Scope")>>))))),
      Dict(Map1("Ophys", Dict(Map1("Device", List(<<>>))))),
      Dict(Map1("Ophys", Dict(Map3("Device", List(<<Named("Scope"), Named("Laser")>>),
                                   "TwoPhotonSeries", List(<<Named("MySeries")>>),
                                   "ImagingPlane", List(<<Named("MyPlane")>>))))) }

Epoch(n, s, e) == [name |-> n, start_frame |-> s, end_frame |-> e]

\* the extractors: any ImagingExtractor, or one that carries nwb_metadata
Extractors ==
    LET \* nwb_metadata as make_nwb_metadata builds it from a file that was read
        ReadMetadata ==
            Dict(Map2("NWBFile", Dict(Map1("session_description", Scal("read"))),
                      "Ophys", Dict(Map2("Device", List(<<Named("Microscope")>>),
                                         "TwoPhotonSeries", List(<<Named("TwoPhotonSeries")>>)))))
        EpochSets == { <<>>, <<Epoch("ep1", 0, 2)>>, <<Epoch("ep2", 2, 5), Epoch("ep1", 0, 2)>> }
    IN
    { [epochs |-> eps, rate |-> 10, start_time |-> 0, has_nwb_metadata |-> h,
       nwb_metadata |-> IF h THEN ReadMetadata ELSE Scal("None")] :
          eps \in EpochSets, h \in BOOLEAN }

NoWrite ==
    [op |-> "none", save_path_given |-> FALSE, nwbfile_kind |-> "none", err |-> "none",
     opened |-> 0, closed |-> 0,
     pre |-> [file |-> [state |-> "absent", content |-> NewNWBFile], nwb |-> NewNWBFile,
              metadata |-> Scal("None"),
              imaging |-> [epochs |-> <<>>, rate |-> 10, start_time |-> 0,
                           has_nwb_metadata |-> FALSE, nwb_metadata |-> Scal("None")]]]

\* write_imaging(imaging, save_path, nwbfile, metadata) with save_path given or
\* None, and nwbfile None, the caller's NWBFile or an object that is no NWBFile
WriteImaging ==
    LET \* the state a write_imaging call with these arguments and outcome r leaves
        Written(r, save_path_given, nwbfile_kind) ==
            /\ file' = r.file
            /\ nwb' = r.nwb
            /\ metadata' = r.metadata
            /\ imaging' = r.imaging
            /\ wcall' = [op |-> "write", save_path_given |-> save_path_given,
                         nwbfile_kind |-> nwbfile_kind, err |-> r.err,
                         opened |-> r.opened, closed |-> r.closed,
                         pre |-> [file |-> file, nwb |-> nwb, metadata |-> metadata,
                                  imaging |-> imaging]]
            /\ ncalls' = [all |-> ncalls.all + 1,
                          on_nwbfile |-> ncalls.on_nwbfile
                              + (IF nwbfile_kind = "nwbfile" /\ ~save_path_given THEN 1 ELSE 0)]
    IN
    /\ wcall.op = "none"
    /\ ncalls.all < MaxCalls
    /\ \E save_path_given \in BOOLEAN, nwbfile_kind \in {"none", "nwbfile", "other"},
          leaves_file \in BOOLEAN :
         /\ leaves_file =>
               /\ save_path_given /\ nwbfile_kind = "none" /\ file.state = "absent"
               /\ write_steps(imaging, NewNWBFile, effective_metadata(imaging, metadata)).err
                     # "none"
         /\ Written(write_imaging(imaging, save_path_given, nwbfile_kind, metadata, file, nwb,
                                  leaves_file),
                    save_path_given, nwbfile_kind)
    /\ UNCHANGED <<mergeVars, tableVars, readVars, segVars>>

\* the caller takes the outcome of the call
WriteReturns ==
    /\ wcall.op # "none"
    /\ wcall' = [NoWrite EXCEPT !.pre = [file |-> file, nwb |-> nwb, metadata |-> metadata,
                                         imaging |-> imaging]]
    /\ UNCHANGED <<file, nwb, metadata, imaging, ncalls, mergeVars, tableVars, readVars, segVars>>

NextImaging == WriteImaging \/ WriteReturns

----------------------------------------------------------------------------
(***************************************************************************)
(* add_epochs on its own: any epoch table met by any model's epochs.       *)
(***************************************************************************)
Row(tags, s, e) == [tags |-> tags, start_time |-> s, stop_time |-> e]

\* nwbfile.epochs before the call: None, a table without rows, rows tagged as
\* the model's epochs or otherwise, and a row of two tags
PriorTables ==
    { NoEpochs,
      [exists |-> TRUE, rows |-> <<>>],
      [exists |-> TRUE, rows |-> <<Row(<<"ep1">>, 100, 300)>>],
      [exists |-> TRUE, rows |-> <<Row(<<"old">>, 0, 50)>>],
      [exists |-> TRUE, rows |-> <<Row(<<"old">>, 0, 50), Row(<<"ep1">>, 100, 300)>>],
      [exists |-> TRUE, rows |-> <<Row(<<"ep2">>, 7, 9), Row(<<"ep1">>, 100, 300)>>],
      [exists |-> TRUE, rows |-> <<Row(<<"ep1", "old">>, 0, 50)>>] }

\* imaging._epochs, in the insertion order of the dict
ModelEpochs ==
    { <<>>,
      <<Epoch("ep1", 0, 2)>>,
      <<Epoch("ep2", 2, 5), Epoch("ep1", 0, 2)>>,
      <<Epoch("ep1", 1, 4), Epoch("ep2", 4, 5), Epoch("ep3", 5, 7)>> }

\* the models: their epochs, sampling rate (Hz) and start time (ms)
EpochModels ==
    { [epochs |-> eps, rate |-> r, start_time |-> s, has_nwb_metadata |-> FALSE,
       nwb_metadata |-> Scal("None")] :
          eps \in ModelEpochs, r \in {3, 10}, s \in {0, 500} }

\* NwbImagingExtractor.add_epochs(imaging, nwbfile) on the caller's NWBFile
AddEpochs ==
    /\ wcall.op = "none"
    /\ ncalls.all < MaxCalls
    /\ nwb' = add_epochs(imaging, nwb)
    /\ wcall' = [NoWrite EXCEPT !.op = "add_epochs", !.nwbfile_kind = "nwbfile",
                                !.pre = [file |-> file, nwb |-> nwb, metadata |-> metadata,
                                         imaging |-> imaging]]
    /\ ncalls' = [all |-> ncalls.all + 1, on_nwbfile |-> ncalls.on_nwbfile + 1]
    /\ UNCHANGED <<file, metadata, imaging, mergeVars, tableVars, readVars, segVars>>

NextEpochs == AddEpochs \/ WriteReturns

----------------------------------------------------------------------------
(***************************************************************************)
(* The imaging read path: NwbImagingExtractor(file_path,                   *)
(* optical_series_name) and its __del__.  The files read are those         *)
(* write_imaging makes: every acquisition entry is a TwoPhotonSeries of    *)
(* 3-D data kept in the file, so the two assertions on opts and the test   *)
(* of the data's shape pass.                                               *)
(***************************************************************************)
\* NwbImagingExtractor.time_to_frame(time), time in milliseconds
time_to_frame(rate, start_time, time) ==
    LET \* int(x) of a number of thousandths: the fraction is dropped, towards zero
        int_of_thousandths(x) == IF x >= 0 THEN x \div 1000 ELSE -((-x) \div 1000)
    IN  int_of_thousandths((time - start_time) * rate)

\* d[key] = value on a dict kept as the sequence of its items
put(items, key, value) ==
    IF \E i \in 1..Len(items) : items[i].name = key
    THEN [i \in 1..Len(items) |-> IF items[i].name = key THEN value ELSE items[i]]
    ELSE Append(items, value)

RECURSIVE epochs_read(_, _, _, _)
\* {row['tags'][0]: {'start_frame': time_to_frame(row['start_time']),
\*                   'end_frame': time_to_frame(row['stop_time'])} for _, row in df_epochs.iterrows()}
epochs_read(rate, start_time, rows, items) ==
    IF rows = <<>>
    THEN items
    ELSE epochs_read(rate, start_time, Tail(rows),
                     put(items, Head(rows).tags[1],
                         [name |-> Head(rows).tags[1],
                          start_frame |-> time_to_frame(rate, start_time, Head(rows).start_time),
                          end_frame |-> time_to_frame(rate, start_time, Head(rows).stop_time)]))

\* make_nwb_metadata(nwbfile, opts): the NWBFile fields, one Device entry per
\* device of the file, the name of the series
make_nwb_metadata(nwbfile, opts_name) ==
    Dict(Map2("NWBFile", Dict(Map1("session_description", Scal("read"))),
              "Ophys", Dict(Map2("Device",
                                 List([i \in 1..Len(nwbfile.devices) |-> Named(nwbfile.devices[i])]),
                                 "TwoPhotonSeries", List(<<Named(opts_name)>>)))))

\* the object before __init__ has run
NoReader ==
    [state |-> "none", err |-> "none", name_given |-> FALSE, name |-> "None",
     io |-> "unset", closes |-> 0, del_err |-> "none",
     series |-> "None", rate |-> 0, start_time |-> 0, epochs |-> <<>>,
     has_nwb_metadata |-> FALSE, nwb_metadata |-> Scal("None")]

\* the object __init__ leaves when it raises err with the handle in state io
FailedReader(r, err, io) == [r EXCEPT !.state = "failed", !.err = err, !.io = io]

\* __init__ from `if self.nwbfile.epochs is not None:` on, the series and its
\* rate and starting time being read
reader_filled(r, nwbfile, series, start_time) ==
    [r EXCEPT !.state = "constructed", !.io = "open",
              !.series = series.name, !.rate = series.rate, !.start_time = start_time,
              !.epochs = IF nwbfile.epochs.exists
                         THEN epochs_read(series.rate, start_time, nwbfile.epochs.rows, <<>>)
                         ELSE <<>>,
              !.has_nwb_metadata = TRUE,
              !.nwb_metadata = make_nwb_metadata(nwbfile, series.name)]

\* __init__ from `opts = self.nwbfile.acquisition[self._optical_series_name]` on.
\* opts.get(os, 'starting_time', 0.) is a call into the series object: it either
\* raises AttributeError (has_get false) or gives the starting time, 0 in a
\* file of write_imaging
reader_of_series(r, nwbfile, series_name, has_get) ==
    IF series_name \notin SeriesNames(nwbfile)
    THEN FailedReader([r EXCEPT !.series = series_name], "KeyError", "open")
    ELSE IF ~has_get
    THEN FailedReader([r EXCEPT !.series = series_name], "AttributeError", "open")
    ELSE reader_filled(r, nwbfile,
                       nwbfile.acquisition[CHOOSE i \in 1..Len(nwbfile.acquisition) :
                                              nwbfile.acquisition[i].name = series_name],
                       0)

\* __init__ from `if optical_series_name is not None:` to
\* `self._optical_series_name = a_names[0]`: a_names is bound only when no name
\* is given, and len(a_names) is evaluated either way
series_selected(r, nwbfile, has_get) ==
    IF r.name_given
    THEN FailedReader(r, "UnboundLocalError", "open")
    ELSE IF Len(nwbfile.acquisition) > 1
    THEN FailedReader(r, "ValueError", "open")
    ELSE IF Len(nwbfile.acquisition) = 0
    THEN FailedReader(r, "ValueError", "open")
    ELSE reader_of_series(r, nwbfile, nwbfile.acquisition[1].name, has_get)

\* NwbImagingExtractor.__init__(file_path, optical_series_name).
\* fails_at_open: a file that is no NWB file is refused by NWBHDF5IO(...) or by
\* io.read(), as the storage library has it
NwbImagingExtractor(f, name_given, name, has_get, fails_at_open) ==
    IF f.state = "absent"
    THEN FailedReader([NoReader EXCEPT !.name_given = name_given, !.name = name], "OSError", "unset")
    ELSE IF f.state = "not_nwb"
    THEN FailedReader([NoReader EXCEPT !.name_given = name_given, !.name = name], "OSError",
                      IF fails_at_open THEN "unset" ELSE "open")
    ELSE series_selected([NoReader EXCEPT !.name_given = name_given, !.name = name],
                         f.content, has_get)

\* NwbImagingExtractor(file_path) or NwbImagingExtractor(file_path, name)
ReadImaging ==
    LET \* the series names a caller may ask for
        SeriesNameArgs == {"TwoPhotonSeries", "Other"}
    IN
    /\ reader.state = "none"
    /\ \E name_given \in BOOLEAN, name \in SeriesNameArgs, has_get \in BOOLEAN,
          fails_at_open \in BOOLEAN :
         /\ ~name_given => name = "TwoPhotonSeries"
         /\ fails_at_open => file.state = "not_nwb"
         /\ reader' = NwbImagingExtractor(file, name_given,
                                          IF name_given THEN name ELSE "None",
                                          has_get, fails_at_open)
    /\ UNCHANGED <<fcall, mergeVars, tableVars, imagingVars, segVars>>

\* the object is collected, after a construction that returned or raised
DeleteReader ==
    LET \* NwbImagingExtractor.__del__: self.io.close()
        reader_deleted(r) ==
            IF r.io = "unset"
            THEN [r EXCEPT !.state = "deleted", !.del_err = "AttributeError"]
            ELSE [r EXCEPT !.state = "deleted", !.io = "closed", !.closes = @ + 1]
    IN
    /\ reader.state \in {"constructed", "failed"}
    /\ reader' = reader_deleted(reader)
    /\ UNCHANGED <<fcall, mergeVars, tableVars, imagingVars, segVars>>

\* the frames of the series: opts.data.shape[0]
NumFrames == 7

\* the longest frame_idxs asked for
MaxIdxs == 3

\* np.argsort(a): the positions, from 0, of the elements of a in the order of
\* their values
argsort(a) ==
    LET rank(i) == Cardinality({ j \in 1..Len(a) : a[j] < a[i] \/ (a[j] = a[i] /\ j < i) })
    IN  [r \in 1..Len(a) |-> (CHOOSE i \in 1..Len(a) : rank(i) = r - 1) - 1]

\* NwbImagingExtractor.get_frames(frame_idxs).  Frame k of opts.data is the
\* stored frame number k.  refuses_repeats: the storage library refuses an
\* index list that names a frame twice.
get_frames(frame_idxs, refuses_repeats) ==
    LET opts_data == [k \in 1..NumFrames |-> k - 1]
        \* data[idxs] for an array of indices
        at(data, idxs) == [k \in 1..Len(idxs) |-> data[idxs[k] + 1]]
        \* np.sort(frame_idxs)
        sorted_idxs == at(frame_idxs, argsort(frame_idxs))
    IN
    IF Len(frame_idxs) > 1 /\ \A k \in 1..(Len(frame_idxs) - 1) : frame_idxs[k + 1] - frame_idxs[k] > 0
    THEN [err |-> "none", frames |-> at(opts_data, frame_idxs)]
    ELSE IF refuses_repeats
    THEN [err |-> "TypeError", frames |-> <<>>]
    ELSE [err |-> "none", frames |-> at(at(opts_data, sorted_idxs), argsort(frame_idxs))]

\* no get_frames call made
NoFrames == [op |-> "none", frame_idxs |-> <<>>, err |-> "none", frames |-> <<>>]

\* get_frames(frame_idxs) on a constructed extractor, frame_idxs any valid indices
GetFrames ==
    /\ reader.state = "constructed"
    /\ fcall.op = "none"
    /\ \E frame_idxs \in UNION { [1..n -> 0..(NumFrames - 1)] : n \in 1..MaxIdxs },
          refuses_repeats \in BOOLEAN :
         /\ refuses_repeats => Cardinality(SeqToSet(frame_idxs)) < Len(frame_idxs)
         /\ fcall' = [op |-> "get_frames", frame_idxs |-> frame_idxs,
                      err |-> get_frames(frame_idxs, refuses_repeats).err,
                      frames |-> get_frames(frame_idxs, refuses_repeats).frames]
    /\ UNCHANGED <<reader, mergeVars, tableVars, imagingVars, segVars>>

NextRead == ReadImaging \/ DeleteReader \/ GetFrames

\* the file write_imaging(img, save_path) makes at a path where there was none
WrittenFrom(img) == write_steps(img, NewNWBFile, Dict(EmptyMap)).nwbfile

\* the files a reader is pointed at: none, one that is no NWB file, the file
\* written from the model, that file with a second series, one without series
ReadFiles(img) ==
    { [state |-> "absent", content |-> NewNWBFile],
      [state |-> "not_nwb", content |-> NewNWBFile],
      [state |-> "nwb", content |-> WrittenFrom(img)],
      [state |-> "nwb",
       content |-> [WrittenFrom(img) EXCEPT !.acquisition = Append(@, Series("Other", "ImagingPlane"))]],
      [state |-> "nwb", content |-> [NewNWBFile EXCEPT !.devices = <<"Device">>]] }

\* the models written: their epochs and sampling rate; frames count from time 0
ReadModels ==
    { [epochs |-> eps, rate |-> r, start_time |-> 0, has_nwb_metadata |-> FALSE,
       nwb_metadata |-> Scal("None")] :
          eps \in ModelEpochs, r \in {3, 10, 30} }

----------------------------------------------------------------------------
(***************************************************************************)
(* The segmentation write path: NwbSegmentationExtractor.write_segmentation.*)
(* An NWBFile is kept as its devices, imaging planes, processing modules,  *)
(* the data interfaces of the 'ophys' module, the plane-segmentation       *)
(* tables, the ROI response series and the image containers, by name and   *)
(* in the order they were added.                                           *)
(***************************************************************************)
SegNew ==
    [devices |-> <<>>, imaging_planes |-> <<>>, modules |-> <<>>, interfaces |-> <<>>,
     tables |-> <<>>, series |-> <<>>, images |-> <<>>]

\* name if plane_no_loop == 0 else name + f'_Plane{plane_no_loop}'
Suffixed(name, plane_no_loop) ==
    IF plane_no_loop = 0 THEN name ELSE name \o "_Plane" \o ToString(plane_no_loop)

\* str.capitalize() of a trace kind
Capitalized(kind) ==
    CASE kind = "dff" -> "Dff"
      [] kind = "neuropil" -> "Neuropil"
      [] kind = "deconvolved" -> "Deconvolved"
      [] OTHER -> "Raw"

\* 'RoiResponseSeries' if i == 'raw' else i.capitalize(), with the plane's suffix
TraceName(kind, plane_no_loop) ==
    Suffixed(IF kind = "raw" THEN "RoiResponseSeries" ELSE Capitalized(kind), plane_no_loop)

\* NwbSegmentationExtractor.get_nwb_metadata(sgmextractor)
get_nwb_metadata(sg) ==
    LET \* the roi_response_series entries of get_nwb_metadata: the raw one, and one
        \* for each other kind of trace the extractor has
        response_series_entries ==
            <<Named("RoiResponseSeries")>>
                \o [i \in 1..Len(SelectSeq(sg.traces, LAMBDA k : k # "raw")) |->
                       Named(Capitalized(SelectSeq(sg.traces, LAMBDA k : k # "raw")[i]))]
    IN
    Dict([NWBFile |-> Dict(Map1("session_description", Scal("ses desc"))),
          ophys |-> Dict([Device |-> List(<<Named("Microscope")>>),
                          Fluorescence |->
                              Dict(Map1("roi_response_series", List(response_series_entries))),
                          ImageSegmentation |->
                              Dict(Map1("plane_segmentations", List(<<Named("PlaneSegmentation")>>))),
                          ImagingPlane |-> List(<<Named("ImagingPlane")>>),
                          TwoPhotonSeries |-> List(<<Named("TwoPhotonSeries")>>)])])

\* metadata_input = metadata[num] if metadata else {}, num counted from 1 here
metadata_input(md, num) ==
    LET \* the metadata argument: kind is "none", "dict" or "list", value the dict or
        \* the items of the list.  A None, an empty dict and an empty list are falsy.
        metadata_is_falsy ==
            \/ md.kind = "none"
            \/ md.kind = "dict" /\ Keys(md.value) = {}
            \/ md.kind = "list" /\ md.value = <<>>
    IN
    IF metadata_is_falsy THEN Dict(EmptyMap)
    ELSE IF md.kind = "dict" THEN Raised("KeyError")          \* a dict has no key 0
    ELSE IF num > Len(md.value) THEN Raised("IndexError")
    ELSE md.value[num]

metadata_base_list(sgs, md) ==
    LET \* metadata_base_list[num] after the loop of lines 649-651
        merged_base(sg, input) ==
            IF IsRaised(input) THEN input ELSE nwb_metadata_recursive_update(get_nwb_metadata(sg), input)
    IN  [num \in 1..Len(sgs) |-> merged_base(sgs[num], metadata_input(md, num))]

\* the first error raised while the list is made, "none" if there is none
first_raised(mds) ==
    IF \E num \in 1..Len(mds) : IsRaised(mds[num])
    THEN mds[CHOOSE num \in 1..Len(mds) :
                IsRaised(mds[num]) /\ \A j \in 1..(num - 1) : ~IsRaised(mds[j])].v
    ELSE "none"

Failed(w, err) == [w EXCEPT !.err = err]

\* lines 664-668: the 'ophys' processing module
with_ophys_module(nwbfile) ==
    IF "ophys" \notin SeqToSet(nwbfile.modules)
    THEN [nwbfile EXCEPT !.modules = Append(@, "ophys")]
    ELSE nwbfile

\* lines 672-673: the device
with_device(w, md) ==
    IF NameOf(md.m["ophys"].m["Device"].e[1]) \notin SeqToSet(w.nwbfile.devices)
    THEN [w EXCEPT !.nwbfile.devices = Append(@, NameOf(md.m["ophys"].m["Device"].e[1]))]
    ELSE w

\* lines 676-679: the ImageSegmentation of the plane; image_segmentation is
\* assigned only when it is created
with_image_segmentation(w, p) ==
    IF Suffixed("ImageSegmentation", p) \notin SeqToSet(w.nwbfile.interfaces)
    THEN [w EXCEPT !.nwbfile.interfaces = Append(@, Suffixed("ImageSegmentation", p)),
                   !.image_segmentation = Suffixed("ImageSegmentation", p)]
    ELSE w

\* 'ImagingPlane' if plane_no_loop == 0 else f'ImagePlane_{plane_no_loop}'
image_plane_name(p) == IF p = 0 THEN "ImagingPlane" ELSE "ImagePlane_" \o ToString(p)

\* lines 686-701: input_kwargs.update(**metadata['ophys']['ImagingPlane'][0])
\* puts the name of the metadata over name=image_plane_name, and
\* create_imaging_plane refuses a name the file has
with_imaging_plane(w, p, md) ==
    IF w.err # "none" THEN [w |-> w, imaging_plane |-> "None"]
    ELSE IF image_plane_name(p) \in SeqToSet(w.nwbfile.imaging_planes)
    THEN [w |-> w, imaging_plane |-> image_plane_name(p)]
    ELSE IF NameOf(md.m["ophys"].m["ImagingPlane"].e[1]) \in SeqToSet(w.nwbfile.imaging_planes)
    THEN [w |-> Failed(w, "ValueError"), imaging_plane |-> "None"]
    ELSE [w |-> [w EXCEPT !.nwbfile.imaging_planes =
                             Append(@, NameOf(md.m["ophys"].m["ImagingPlane"].e[1]))],
          imaging_plane |-> NameOf(md.m["ophys"].m["ImagingPlane"].e[1])]

\* the name of the plane segmentation in the metadata
plane_segmentation_name(md) ==
    NameOf(md.m["ophys"].m["ImageSegmentation"].m["plane_segmentations"].e[1])

\* accepted_ids = [1 if k in segext_obj.get_accepted_list() else 0 for k in roi_ids]
accepted_ids(sg) ==
    [num \in 1..Len(sg.roi_ids) |-> IF sg.roi_ids[num] \in SeqToSet(sg.accepted) THEN 1 ELSE 0]

\* lines 703-729.  When the table exists the code evaluates i['name'], with i
\* the loop variable of line 741: unbound in the first plane
with_plane_segmentation(t, md, sg) ==
    LET \* lines 708-729: a new table gets the two columns and a row per ROI, in the
        \* order of roi_ids; image_mask becomes a column with the first row
        new_table(image_segmentation, name, imaging_plane) ==
            [segmentation |-> image_segmentation, name |-> name, imaging_plane |-> imaging_plane,
             colnames |-> {"RoiCentroid", "Accepted"}
                            \cup (IF sg.roi_ids = <<>> THEN {} ELSE {"image_mask"}),
             id |-> sg.roi_ids,
             Accepted |-> accepted_ids(sg)]
        \* the tables of an ImageSegmentation, by name
        TablesOf(nwbfile, image_segmentation) ==
            { nwbfile.tables[i].name : i \in { j \in 1..Len(nwbfile.tables) :
                                                  nwbfile.tables[j].segmentation = image_segmentation } }
    IN
    IF t.w.err # "none" THEN t.w
    ELSE IF t.w.image_segmentation = "unbound"
    THEN Failed(t.w, "UnboundLocalError")
    ELSE IF plane_segmentation_name(md) \in TablesOf(t.w.nwbfile, t.w.image_segmentation)
    THEN Failed(t.w, IF t.w.i_bound THEN "TypeError" ELSE "UnboundLocalError")
    ELSE [t.w EXCEPT !.nwbfile.tables =
                        Append(@, new_table(t.w.image_segmentation, plane_segmentation_name(md), t.imaging_plane))]

\* lines 732-736: 'Flourescence' is in no module, so a Fluorescence is made
\* and added each time, and add_data_interface refuses a name the module has
with_fluorescence(w) ==
    IF w.err # "none" THEN w
    ELSE IF "Fluorescence" \in SeqToSet(w.nwbfile.interfaces)
    THEN Failed(w, "ValueError")
    ELSE [w EXCEPT !.nwbfile.interfaces = Append(@, "Fluorescence")]

RECURSIVE series_created_from(_, _, _, _, _)
\* lines 741-748: a response series per kind of trace, on the rows
\* list(range(get_num_rois())) of the plane's table
series_created_from(series, kinds, p, table, num_rois) ==
    IF kinds = <<>>
    THEN series
    ELSE series_created_from(
             IF \E i \in 1..Len(series) : series[i].name = TraceName(Head(kinds), p)
             THEN series
             ELSE Append(series, [name |-> TraceName(Head(kinds), p), rois |-> table,
                                  region |-> [k \in 1..num_rois |-> k - 1]]),
             Tail(kinds), p, table, num_rois)

\* lines 737-748; the loop binds i when the extractor has a trace
with_traces(w, p, sg) ==
    IF w.err # "none" THEN w
    ELSE [w EXCEPT !.nwbfile.series =
                      series_created_from(@, sg.traces, p, Len(w.nwbfile.tables), Len(sg.roi_ids)),
                   !.i_bound = @ \/ sg.traces # <<>>]

\* lines 755-762: the images of the plane
with_images(w, p, sg) ==
    IF w.err # "none" THEN w
    ELSE IF Suffixed("SegmentationImages", p) \in SeqToSet(w.nwbfile.interfaces)
    THEN w
    ELSE [w EXCEPT !.nwbfile.interfaces = Append(@, Suffixed("SegmentationImages", p)),
                   !.nwbfile.images = Append(@, [name |-> Suffixed("SegmentationImages", p),
                                                 images |-> sg.images])]

\* one pass of the loop of line 670, for plane p (plane_no_loop)
plane_written(w, p, sg, md) ==
    with_images(
        with_traces(
            with_fluorescence(
                with_plane_segmentation(
                    with_imaging_plane(with_image_segmentation(with_device(w, md), p), p, md),
                    md, sg)),
            p, sg),
        p, sg)

RECURSIVE planes_written(_, _, _, _)
\* for plane_no_loop, (segext_obj, metadata) in enumerate(zip(segext_objs, metadata_base_list))
planes_written(w, p, sgs, mds) ==
    IF p >= Len(sgs) \/ p >= Len(mds) \/ w.err # "none"
    THEN w
    ELSE planes_written(plane_written(w, p, sgs[p + 1], mds[p + 1]), p + 1, sgs, mds)

\* what a write_segmentation call leaves: the error raised if any, the file,
\* the handles opened and closed
SegOutcome(err, f, opened) == [err |-> err, file |-> f, opened |-> opened, closed |-> opened]

\* lines 653-769
block_run(sgs, mds, f, nwbfile_exist) ==
    LET \* the with block closed on w; io.write(nwbfile) and the test read when no
        \* step raised.  A step that raises in mode 'w' leaves the file the mode made.
        block_closed(w, file_mode) ==
            IF w.err = "none"
            THEN SegOutcome("none", [state |-> "nwb", content |-> w.nwbfile], 2)
            ELSE SegOutcome(w.err,
                            IF file_mode = "w" THEN [state |-> "not_nwb", content |-> SegNew] ELSE f,
                            1)
        \* the state of the with block: the NWBFile, the error raised if any, the
        \* ImageSegmentation the local image_segmentation is bound to ("unbound"
        \* before its first assignment), whether the local i is bound (line 741)
        Block(nwbfile, err, image_segmentation, i_bound) ==
            [nwbfile |-> nwbfile, err |-> err, image_segmentation |-> image_segmentation,
             i_bound |-> i_bound]
    IN
    IF nwbfile_exist /\ f.state = "not_nwb"               \* io.read() of a file that is no NWB file
    THEN SegOutcome("OSError", f, 1)
    ELSE block_closed(planes_written(Block(with_ophys_module(IF nwbfile_exist THEN f.content ELSE SegNew), "none", "unbound", FALSE), 0, sgs, mds), IF nwbfile_exist THEN "r+" ELSE "w")

\* segext_objs: the segmentations of a multi aggregate, else the extractor itself
segext_objs(sx) == sx.segmentations

\* lines 640-651 and the with block, the file being as lines 629-638 left it
write_segmentation_on(sx, md, f1, nwbfile_exist) ==
    IF sx.multi /\ md.kind # "none" /\ md.kind # "list"
    THEN SegOutcome("ValueError", f1, 0)
    ELSE IF first_raised(metadata_base_list(segext_objs(sx), md)) # "none"
    THEN SegOutcome(first_raised(metadata_base_list(segext_objs(sx), md)), f1, 0)
    ELSE block_run(segext_objs(sx), metadata_base_list(segext_objs(sx), md), f1, nwbfile_exist)

\* NwbSegmentationExtractor.write_segmentation(segext_obj, save_path, metadata=..., file_overwrite=...)
write_segmentation(sx, md, f, file_overwrite) ==
    LET \* the file after lines 629-638: kept when it exists and file_overwrite is
        \* false, removed otherwise (os.remove)
        file_after_mode_choice ==
            IF f.state # "absent" /\ ~file_overwrite THEN f ELSE [state |-> "absent", content |-> SegNew]
    IN
    write_segmentation_on(sx, md, file_after_mode_choice,
                          f.state # "absent" /\ ~file_overwrite)

----------------------------------------------------------------------------
(***************************************************************************)
(* The segmentation read path: NwbSegmentationExtractor(file_path), its    *)
(* accepted and rejected lists and its __del__; SimaSegmentationExtractor. *)
(***************************************************************************)
\* the object before __init__ has run
NoSegReader ==
    [kind |-> "nwb", state |-> "none", err |-> "none", io |-> "unset", closes |-> 0,
     del_err |-> "none", source |-> [state |-> "absent", content |-> SegNew],
     image_masks |-> "None", accepted_list |-> [is_none |-> TRUE, data |-> <<>>],
     roi_idx |-> <<>>, no_rois |-> 0]

\* the object __init__ leaves when it raises err with the handle in state io
FailedSegReader(r, err, io) == [r EXCEPT !.state = "failed", !.err = err, !.io = io]

\* lines 492-546, ps being the first plane segmentation of the file
reader_of_table(r, nwbfile, ps) ==
    LET \* the names of the images of the file that have part in their name
        images_named(part) ==
            { n \in UNION { nwbfile.images[i].images : i \in 1..Len(nwbfile.images) } :
                 \/ part = "corr" /\ n = "correlation"
                 \/ part = "mean" /\ n = "mean" }
    IN
    IF nwbfile.series = <<>>
    THEN FailedSegReader(r, "Exception", "open")       \* no ROI response series found
    ELSE IF nwbfile.modules[1] # "ophys" \/ "Fluorescence" \notin SeqToSet(nwbfile.interfaces)
    THEN FailedSegReader(r, "KeyError", "open")        \* mod['Fluorescence']
    ELSE IF images_named("corr") = {} \/ images_named("mean") = {}
    THEN FailedSegReader(r, "IndexError", "open")      \* [...][0] of an empty list
    ELSE [r EXCEPT !.state = "constructed", !.io = "open",
                   !.image_masks = IF "image_mask" \in ps.colnames THEN "masks" ELSE "None",
                   !.accepted_list = IF "Accepted" \in ps.colnames
                                     THEN [is_none |-> FALSE, data |-> ps.Accepted]
                                     ELSE [is_none |-> TRUE, data |-> <<>>],
                   !.roi_idx = ps.id,
                   !.no_rois = Len(ps.id)]

\* lines 474-490: the processing module and the plane segmentation.  The
\* first module is indexed before the list is tested; ps is bound only when
\* there is a plane segmentation and is used either way (line 492)
reader_of_file(r, nwbfile) ==
    IF nwbfile.modules = <<>>
    THEN FailedSegReader(r, "IndexError", "open")
    ELSE IF nwbfile.tables = <<>>
    THEN FailedSegReader(r, "UnboundLocalError", "open")
    ELSE reader_of_table(r, nwbfile, nwbfile.tables[1])

\* NwbSegmentationExtractor.__init__(file_path).
\* fails_at_open: a file that is no NWB file is refused by NWBHDF5IO(...) or by
\* io.read(), as the storage library has it
NwbSegmentationExtractor(f, fails_at_open) ==
    IF f.state = "absent"
    THEN FailedSegReader([NoSegReader EXCEPT !.source = f], "Exception", "unset")
    ELSE IF f.state = "not_nwb"
    THEN FailedSegReader([NoSegReader EXCEPT !.source = f], "OSError",
                         IF fails_at_open THEN "unset" ELSE "open")
    ELSE reader_of_file([NoSegReader EXCEPT !.source = f], f.content)

RECURSIVE where_is_one(_, _)
\* np.where(data == 1)[0].tolist(): the positions, from 0, of the ones; i is
\* the position of the head
where_is_one(data, i) ==
    IF data = <<>> THEN <<>>
    ELSE (IF Head(data) = 1 THEN <<i>> ELSE <<>>) \o where_is_one(Tail(data), i + 1)

\* list(range(n))
range(n) == [k \in 1..n |-> k - 1]

\* NwbSegmentationExtractor.get_accepted_list()
get_accepted_list(r) ==
    IF r.accepted_list.is_none THEN range(r.no_rois) ELSE where_is_one(r.accepted_list.data, 0)

\* NwbSegmentationExtractor.get_roi_ids()
get_roi_ids(r) == r.roi_idx

\* NwbSegmentationExtractor.get_rejected_list()
get_rejected_list(r) ==
    SelectSeq(get_roi_ids(r), LAMBDA a : a \notin SeqToSet(get_accepted_list(r)))

\* SimaSegmentationExtractor.__init__(filepath, sima_segmentation_label) on a
\* dataset with roi_sets sets of ROIs.  _image_mask_extracter_read picks the
\* set; values()[0] of a dict is an error under Python 3 (py3).  Line 54 then
\* reads self.roi_idx, which reads self._roi_ids, assigned at line 62 only.
SimaSegmentationExtractor(roi_sets, label_valid, py3, no_rois) ==
    [NoSegReader EXCEPT
        !.kind = "sima", !.state = "failed", !.no_rois = no_rois,
        !.err = IF roi_sets = 0 THEN "Exception"
                ELSE IF roi_sets > 1 /\ ~label_valid THEN "Exception"
                ELSE IF roi_sets = 1 /\ py3 THEN "TypeError"
                ELSE "AttributeError"]

\* SimaSegmentationExtractor.accepted_list, _accepted_list being None
sima_accepted_list(r) == range(r.no_rois)

\* SimaSegmentationExtractor.roi_idx, _roi_ids being None
sima_roi_idx(r) == range(r.no_rois)

\* SimaSegmentationExtractor.rejected_list
sima_rejected_list(r) ==
    SelectSeq(range(r.no_rois), LAMBDA a : a \notin SeqToSet(sima_accepted_list(r)))

----------------------------------------------------------------------------
(***************************************************************************)
(* The inputs and actions of the segmentation paths.                       *)
(***************************************************************************)
\* the subsequences of a sequence
SubSeqs(ids) ==
    { SelectSeq(ids, LAMBDA a : a \in keep) : keep \in SUBSET SeqToSet(ids) }

SummaryImages == {"correlation", "mean"}

\* the segmentation extractors
SegModels ==
    LET \* the models of the given ROI ids: any accepted list, one or two kinds of
        \* trace, with or without summary images
        ModelsOf(ids) ==
            { [roi_ids |-> ids, accepted |-> acc, traces |-> tr, images |-> im] :
                acc \in SubSeqs(ids), tr \in {<<"raw">>, <<"raw", "dff">>}, im \in {SummaryImages, {}} }
        \* the ids of the ROIs of a model: from 0 on, or any distinct integers
        RoiIdLists == { <<0, 1>>, <<10, 20>>, <<20, 10, 30>> }
    IN  UNION { ModelsOf(ids) : ids \in RoiIdLists }

SegModel(ids, acc, tr) == [roi_ids |-> ids, accepted |-> acc, traces |-> tr, images |-> SummaryImages]

\* what is passed as segext_obj: an extractor, or a multi aggregate of two
SegExts ==
    LET \* the models put together in a MultiSegmentationExtractor
        MultiParts == { SegModel(<<0, 1>>, <<0>>, <<"raw">>), SegModel(<<10, 20>>, <<20>>, <<"raw", "dff">>) }
    IN
    { [multi |-> FALSE, segmentations |-> <<m>>] : m \in SegModels }
        \cup { [multi |-> TRUE, segmentations |-> <<a, b>>] : a \in MultiParts, b \in MultiParts }

NoSegExt == [multi |-> FALSE, segmentations |-> <<>>]

\* what is passed as metadata: None, a dict, a list with a dict per plane
\* (nothing in them, or a name of its own for the imaging plane of plane 1)
SegMetadataArgs ==
    { [kind |-> "none", value |-> <<>>],
      [kind |-> "dict", value |-> Dict([ophys |-> Dict([Device |-> List(<<Named("Scope")>>)])])],
      [kind |-> "list", value |-> <<Dict(EmptyMap), Dict(EmptyMap)>>],
      [kind |-> "list",
       value |-> <<Dict(EmptyMap),
                   Dict([ophys |-> Dict([ImagingPlane |-> List(<<Named("ImagePlane_1")>>)])])>>] }

\* a file written from a model of ROI ids 10, 20, the second one accepted
FileOfModel ==
    LET \* the NWBFile write_segmentation(sg, save_path) writes where there was no file
        WrittenSeg(sg) ==
            write_segmentation([multi |-> FALSE, segmentations |-> <<sg>>],
                               [kind |-> "none", value |-> <<>>],
                               [state |-> "absent", content |-> SegNew], FALSE).file.content
    IN  WrittenSeg(SegModel(<<10, 20>>, <<20>>, <<"raw", "dff">>))

\* what may be at the path: nothing, a file that is no NWB file, an NWB file
\* without processing module, a file written before, that file with a second
\* processing module, without plane segmentation, without Accepted column
SegFiles ==
    { [state |-> "absent", content |-> SegNew],
      [state |-> "not_nwb", content |-> SegNew] }
    \cup { [state |-> "nwb", content |-> c] :
             c \in { [SegNew EXCEPT !.devices = <<"Microscope">>],
                     FileOfModel,
                     [FileOfModel EXCEPT !.modules = <<"ophys", "behavior">>],
                     [FileOfModel EXCEPT !.tables = <<>>],
                     [FileOfModel EXCEPT !.tables[1].colnames = {"image_mask"},
                                         !.tables[1].Accepted = <<>>] } }

MaxSegWrites == 2

NoSegCall ==
    [op |-> "none", err |-> "none", md |-> [kind |-> "none", value |-> <<>>],
     file_overwrite |-> FALSE, pre |-> [state |-> "absent", content |-> SegNew],
     opened |-> 0, closed |-> 0, count |-> 0]

\* write_segmentation(segext_obj, save_path, metadata=md, file_overwrite=...)
WriteSegmentation ==
    LET \* the state a write_segmentation call with these arguments and outcome r leaves
        SegWritten(r, md, file_overwrite) ==
            /\ segfile' = r.file
            /\ segcall' = [op |-> "write", err |-> r.err, md |-> md, file_overwrite |-> file_overwrite,
                           pre |-> segfile, opened |-> r.opened, closed |-> r.closed,
                           count |-> segcall.count + 1]
    IN
    /\ segcall.count < MaxSegWrites
    /\ \E md \in SegMetadataArgs, file_overwrite \in BOOLEAN :
         SegWritten(write_segmentation(segext, md, segfile, file_overwrite), md, file_overwrite)
    /\ UNCHANGED <<segext, segreader, mergeVars, tableVars, imagingVars, readVars>>

\* NwbSegmentationExtractor(file_path) on what is at the path
ReadSegmentation ==
    /\ segreader.state = "none"
    /\ \E fails_at_open \in BOOLEAN :
         /\ fails_at_open => segfile.state = "not_nwb"
         /\ segreader' = NwbSegmentationExtractor(segfile, fails_at_open)
    /\ UNCHANGED <<segfile, segext, segcall, mergeVars, tableVars, imagingVars, readVars>>

\* SimaSegmentationExtractor(filepath, label) on a sima dataset
ConstructSima ==
    /\ segreader.state = "none"
    /\ \E roi_sets \in 0..2, label_valid \in BOOLEAN, py3 \in BOOLEAN :
         segreader' = SimaSegmentationExtractor(roi_sets, label_valid, py3, 2)
    /\ UNCHANGED <<segfile, segext, segcall, mergeVars, tableVars, imagingVars, readVars>>

\* the extractor is collected, after a construction that returned or raised
DeleteSegReader ==
    LET \* NwbSegmentationExtractor.__del__: self._io.close(); the sima extractor has
        \* no __del__
        seg_reader_deleted(r) ==
            IF r.kind = "sima"
            THEN [r EXCEPT !.state = "deleted"]
            ELSE IF r.io = "unset"
            THEN [r EXCEPT !.state = "deleted", !.del_err = "AttributeError"]
            ELSE [r EXCEPT !.state = "deleted", !.io = "closed", !.closes = @ + 1]
    IN
    /\ segreader.state \in {"constructed", "failed"}
    /\ segreader' = seg_reader_deleted(segreader)
    /\ UNCHANGED <<segfile, segext, segcall, mergeVars, tableVars, imagingVars, readVars>>

NextSegmentation == WriteSegmentation \/ ReadSegmentation \/ ConstructSima \/ DeleteSegReader

----------------------------------------------------------------------------
(***************************************************************************)
(* The specifications.  Each one exercises one part of the program from    *)
(* its inputs and holds the variables of the other parts at rest.          *)
(***************************************************************************)
\* any two bounded trees, any of the iteration orders, no call made yet
InitMerge ==
    /\ base \in Trees
    /\ base0 = base
    /\ override \in Trees
    /\ key_order \in KeyOrders
    /\ result = Scal("None")
    /\ mpc = "start"
    /\ dt = [ids |-> TableIds, cols |-> NoColumns]
    /\ tcall = NoCall
    /\ file = [state |-> "absent", content |-> NewNWBFile]
    /\ nwb = NewNWBFile
    /\ metadata = Scal("None")
    /\ imaging = NoWrite.pre.imaging
    /\ wcall = NoWrite
    /\ ncalls = [all |-> 0, on_nwbfile |-> 0]
    /\ reader = NoReader
    /\ fcall = NoFrames
    /\ segfile = [state |-> "absent", content |-> SegNew]
    /\ segext = NoSegExt
    /\ segcall = NoSegCall
    /\ segreader = NoSegReader

SpecMerge == InitMerge /\ [][NextMerge]_vars

\* a table with its rows and no column yet, no call made yet
InitTable ==
    /\ base = Dict(EmptyMap)
    /\ base0 = base
    /\ override = Dict(EmptyMap)
    /\ key_order = <<"a", "b", "c", "d">>
    /\ result = Scal("None")
    /\ mpc = "idle"
    /\ dt = [ids |-> TableIds, cols |-> NoColumns]
    /\ tcall = NoCall
    /\ file = [state |-> "absent", content |-> NewNWBFile]
    /\ nwb = NewNWBFile
    /\ metadata = Scal("None")
    /\ imaging = NoWrite.pre.imaging
    /\ wcall = NoWrite
    /\ ncalls = [all |-> 0, on_nwbfile |-> 0]
    /\ reader = NoReader
    /\ fcall = NoFrames
    /\ segfile = [state |-> "absent", content |-> SegNew]
    /\ segext = NoSegExt
    /\ segcall = NoSegCall
    /\ segreader = NoSegReader

SpecTable == InitTable /\ [][NextTable]_vars

\* any file at save_path, any NWBFile in the caller's hands, any metadata, any
\* extractor; no call made yet
InitImaging ==
    /\ base = Dict(EmptyMap)
    /\ base0 = base
    /\ override = Dict(EmptyMap)
    /\ key_order = <<"a", "b", "c", "d">>
    /\ result = Scal("None")
    /\ mpc = "idle"
    /\ dt = [ids |-> TableIds, cols |-> NoColumns]
    /\ tcall = NoCall
    /\ file \in Files
    /\ nwb \in Containers
    /\ metadata \in MetadataArgs
    /\ imaging \in Extractors
    /\ wcall = [NoWrite EXCEPT !.pre = [file |-> file, nwb |-> nwb, metadata |-> metadata,
                                        imaging |-> imaging]]
    /\ ncalls = [all |-> 0, on_nwbfile |-> 0]
    /\ reader = NoReader
    /\ fcall = NoFrames
    /\ segfile = [state |-> "absent", content |-> SegNew]
    /\ segext = NoSegExt
    /\ segcall = NoSegCall
    /\ segreader = NoSegReader

SpecImaging == InitImaging /\ [][NextImaging]_vars

\* any epoch table in the caller's NWBFile, any model; no call made yet
InitEpochs ==
    /\ base = Dict(EmptyMap)
    /\ base0 = base
    /\ override = Dict(EmptyMap)
    /\ key_order = <<"a", "b", "c", "d">>
    /\ result = Scal("None")
    /\ mpc = "idle"
    /\ dt = [ids |-> TableIds, cols |-> NoColumns]
    /\ tcall = NoCall
    /\ file = [state |-> "absent", content |-> NewNWBFile]
    /\ nwb \in { [NewNWBFile EXCEPT !.epochs = t] : t \in PriorTables }
    /\ metadata = Scal("None")
    /\ imaging \in EpochModels
    /\ wcall = [NoWrite EXCEPT !.pre = [file |-> file, nwb |-> nwb, metadata |-> metadata,
                                        imaging |-> imaging]]
    /\ ncalls = [all |-> 0, on_nwbfile |-> 0]
    /\ reader = NoReader
    /\ fcall = NoFrames
    /\ segfile = [state |-> "absent", content |-> SegNew]
    /\ segext = NoSegExt
    /\ segcall = NoSegCall
    /\ segreader = NoSegReader

SpecEpochs == InitEpochs /\ [][NextEpochs]_vars

\* a model and a file a reader may be pointed at; no reader yet
InitRead ==
    /\ base = Dict(EmptyMap)
    /\ base0 = base
    /\ override = Dict(EmptyMap)
    /\ key_order = <<"a", "b", "c", "d">>
    /\ result = Scal("None")
    /\ mpc = "idle"
    /\ dt = [ids |-> TableIds, cols |-> NoColumns]
    /\ tcall = NoCall
    /\ imaging \in ReadModels
    /\ file \in ReadFiles(imaging)
    /\ nwb = NewNWBFile
    /\ metadata = Scal("None")
    /\ wcall = [NoWrite EXCEPT !.pre = [file |-> file, nwb |-> nwb, metadata |-> metadata,
                                        imaging |-> imaging]]
    /\ ncalls = [all |-> 0, on_nwbfile |-> 0]
    /\ reader = NoReader
    /\ fcall = NoFrames
    /\ segfile = [state |-> "absent", content |-> SegNew]
    /\ segext = NoSegExt
    /\ segcall = NoSegCall
    /\ segreader = NoSegReader

SpecRead == InitRead /\ [][NextRead]_vars

\* any extractor to write, anything at the path; no call made, no extractor
\* constructed yet
InitSegmentation ==
    /\ base = Dict(EmptyMap)
    /\ base0 = base
    /\ override = Dict(EmptyMap)
    /\ key_order = <<"a", "b", "c", "d">>
    /\ result = Scal("None")
    /\ mpc = "idle"
    /\ dt = [ids |-> TableIds, cols |-> NoColumns]
    /\ tcall = NoCall
    /\ file = [state |-> "absent", content |-> NewNWBFile]
    /\ nwb = NewNWBFile
    /\ metadata = Scal("None")
    /\ imaging = NoWrite.pre.imaging
    /\ wcall = NoWrite
    /\ ncalls = [all |-> 0, on_nwbfile |-> 0]
    /\ reader = NoReader
    /\ fcall = NoFrames
    /\ segfile \in SegFiles
    /\ segext \in SegExts
    /\ segcall = NoSegCall
    /\ segreader = NoSegReader

SpecSegmentation == InitSegmentation /\ [][NextSegmentation]_vars

----------------------------------------------------------------------------
(***************************************************************************)
(* Claims about the dynamic-table accessors (checked under SpecTable).     *)
(***************************************************************************)
SomeRowIdOutside(c) == \E i \in 1..Len(c.row_ids) : c.row_ids[i] \notin SeqToSet(c.pre.ids)
SizesDiffer(c) == c.index = FALSE /\ Len(c.row_ids) # Len(c.values)
Addressed(c) == { IndexOf(c.pre.ids, c.row_ids[k]) : k \in 1..Len(c.row_ids) }
Distinct(s) == \A i, j \in 1..Len(s) : s[i] = s[j] => i = j

C6_OnlyAddressedCells ==
    (/\ tcall.op = "set"
     /\ tcall.err = "none"
     /\ tcall.index = FALSE
     /\ tcall.name \in DOMAIN tcall.pre.cols) =>
        LET old == tcall.pre.cols[tcall.name]
            new == dt.cols[tcall.name]
        IN /\ dt.ids = tcall.pre.ids
           /\ DOMAIN dt.cols = DOMAIN tcall.pre.cols
           /\ \A n \in DOMAIN dt.cols \ {tcall.name} : dt.cols[n] = tcall.pre.cols[n]
           /\ new.indexed = old.indexed
           /\ Len(new.data) = Len(old.data)
           /\ \A p \in 1..Len(old.data) : p \notin Addressed(tcall) => new.data[p] = old.data[p]
           /\ \A k \in 1..Len(tcall.row_ids) :
                 (\A k2 \in (k + 1)..Len(tcall.row_ids) : tcall.row_ids[k2] # tcall.row_ids[k])
                    => new.data[IndexOf(tcall.pre.ids, tcall.row_ids[k])] = tcall.values[k]

\* C6's case: another column exists, one cell of the named column is rewritten
\* and another one, holding a value of its own, is not addressed
C6_Witness ==
    /\ tcall.op = "set"
    /\ tcall.err = "none"
    /\ tcall.index = FALSE
    /\ DOMAIN tcall.pre.cols = ColumnNames
    /\ Len(tcall.row_ids) = 1
    /\ dt.cols[tcall.name] # tcall.pre.cols[tcall.name]
    /\ \E p \in 1..Len(dt.ids) :
          p \notin Addressed(tcall) /\ dt.cols[tcall.name].data[p] \in CellValues

----------------------------------------------------------------------------
(***************************************************************************)
(* The write path of the imaging extractor.                                *)
(***************************************************************************)
\* the call in flight named both save_path and nwbfile, or neither
BothOrNeither ==
    \/ wcall.save_path_given /\ wcall.nwbfile_kind # "none"
    \/ ~wcall.save_path_given /\ wcall.nwbfile_kind = "none"

\* C8: a write_imaging call that supplies both save_path and nwbfile, or
\* neither, raises, and it does so with no file opened, the file at save_path
\* as it was and the caller's NWBFile as it was.
C8_ExactlyOneTarget ==
    (wcall.op = "write" /\ BothOrNeither) =>
        /\ wcall.err # "none"
        /\ wcall.opened = 0
        /\ file = wcall.pre.file
        /\ nwb = wcall.pre.nwb

\* a call with a save_path and an NWBFile that has something to add to it was rejected
C8_Witness ==
    /\ wcall.op = "write"
    /\ wcall.save_path_given
    /\ wcall.nwbfile_kind = "nwbfile"
    /\ wcall.err = "AssertionError"
    /\ wcall.pre.nwb = NewNWBFile
    /\ wcall.pre.imaging.epochs # <<>>

\* what the three write steps make of the file the call found at save_path
StepsOnFileFound ==
    write_steps(wcall.pre.imaging, wcall.pre.file.content,
                effective_metadata(wcall.pre.imaging, wcall.pre.metadata))

\* C9: after write_imaging(model, save_path) returns from a save_path that held
\* an NWB file, the file holds what the three write steps make of its former
\* content: every device of the metadata, the two-photon series and an epoch
\* for each epoch of the model.
C9_ExistingFileGetsSteps ==
    (/\ wcall.op = "write"
     /\ wcall.save_path_given
     /\ wcall.nwbfile_kind = "none"
     /\ wcall.pre.file.state = "nwb"
     /\ wcall.err = "none"
     /\ StepsOnFileFound.err = "none") =>
        /\ file.state = "nwb"
        /\ file.content = StepsOnFileFound.nwbfile

\* no name occurs twice in the sequence
NoDuplicates(names) == \A i, j \in 1..Len(names) : names[i] = names[j] => i = j

\* C10: when the write steps run on a caller's NWBFile they have run on before,
\* with the same metadata, the run raises nothing and creates nothing, and the
\* file holds one device per device name, one imaging plane and one series.
C10_SecondRunIsNoOp ==
    (/\ wcall.op = "write"
     /\ wcall.nwbfile_kind = "nwbfile"
     /\ ~wcall.save_path_given
     /\ ncalls.on_nwbfile >= 2) =>
        /\ wcall.err = "none"
        /\ nwb.devices = wcall.pre.nwb.devices
        /\ nwb.imaging_planes = wcall.pre.nwb.imaging_planes
        /\ nwb.acquisition = wcall.pre.nwb.acquisition
        /\ NoDuplicates(nwb.devices)
        /\ NoDuplicates(nwb.imaging_planes)
        /\ NoDuplicates([i \in 1..Len(nwb.acquisition) |-> nwb.acquisition[i].name])

\* metadata['Ophys']['TwoPhotonSeries'] has a first entry
NamesSeries(md) ==
    /\ IsDict(md)
    /\ "Ophys" \in Keys(md)
    /\ "TwoPhotonSeries" \in Keys(md.m["Ophys"])
    /\ md.m["Ophys"].m["TwoPhotonSeries"].e # <<>>

\* C11: after the write steps ran without error on the caller's NWBFile with a
\* metadata whose first TwoPhotonSeries entry is named S, the acquisition of
\* the NWBFile holds a series named S.
C11_NamedSeriesWritten ==
    (/\ wcall.op = "write"
     /\ wcall.nwbfile_kind = "nwbfile"
     /\ ~wcall.save_path_given
     /\ wcall.err = "none"
     /\ NamesSeries(wcall.pre.metadata)) =>
        NameOf(series_opts(wcall.pre.metadata)) \in SeriesNames(nwb)

----------------------------------------------------------------------------
(***************************************************************************)
(* add_epochs.                                                             *)
(***************************************************************************)
\* the rows of the table whose tags are [name]
RowsTagged(epochs, name) == { i \in 1..Len(epochs.rows) : epochs.rows[i].tags = <<name>> }

ModelNames(img) == { img.epochs[i].name : i \in 1..Len(img.epochs) }

----------------------------------------------------------------------------
(***************************************************************************)
(* The imaging read path.                                                  *)
(***************************************************************************)
\* C13: constructed on an NWB file with a series name that the file has, the
\* extractor selects that series; with no name it selects the only series of
\* the file and raises ValueError when the file has none or several; the
\* selection raises nothing else.
C13_SeriesSelection ==
    (reader.state \in {"constructed", "failed"} /\ file.state = "nwb") =>
        /\ (reader.name_given /\ reader.name \in SeriesNames(file.content)) =>
              reader.series = reader.name
        /\ (~reader.name_given /\ Len(file.content.acquisition) = 1) =>
              reader.series = file.content.acquisition[1].name
        /\ (~reader.name_given /\ Len(file.content.acquisition) # 1) =>
              reader.err = "ValueError"
        /\ reader.err # "UnboundLocalError"

\* C14: an extractor constructed on the file written from a model gives
\* time_to_frame(frame_to_time(f)) = f for each frame f, and has the model's
\* epochs, frame for frame.
C14_EpochFramesRoundTrip ==
    (reader.state = "constructed" /\ file = [state |-> "nwb", content |-> WrittenFrom(imaging)]) =>
        /\ \A f \in 0..NumFrames :
              time_to_frame(reader.rate, reader.start_time, frame_to_time(reader, f)) = f
        /\ reader.epochs = imaging.epochs

\* C20: a write_imaging call has closed every handle it opened when it is
\* over, and an extractor that was torn down has closed its handle once if it
\* had opened one and has attempted no close if it had opened none.
C20_HandlesClosed ==
    /\ wcall.op = "write" => wcall.closed = wcall.opened
    /\ reader.state = "deleted" =>
          /\ reader.del_err = "none"
          /\ \/ reader.io = "closed" /\ reader.closes = 1
             \/ reader.io = "unset" /\ reader.closes = 0

\* C22: when write_imaging returns, the caller's metadata and the nwb_metadata
\* of the extractor are what they were when the call was made.
C22_MetadataIsTransient ==
    wcall.op = "write" =>
        /\ metadata = wcall.pre.metadata
        /\ imaging.nwb_metadata = wcall.pre.imaging.nwb_metadata

\* C23: get_frames(frame_idxs) returns the frames in the order asked for:
\* element k of what it returns is the stored frame number frame_idxs[k].
C23_FramesInRequestedOrder ==
    (fcall.op = "get_frames" /\ Cardinality(SeqToSet(fcall.frame_idxs)) = Len(fcall.frame_idxs)) =>
        /\ fcall.err = "none"
        /\ fcall.frames = fcall.frame_idxs

----------------------------------------------------------------------------
(***************************************************************************)
(* The segmentation paths.                                                 *)
(***************************************************************************)
\* an extractor was constructed from the file the last call wrote, a new
\* file written from a single model
ReadBackOfNewFile ==
    /\ segcall.op = "write"
    /\ segcall.err = "none"
    /\ segcall.pre.state = "absent"
    /\ ~segext.multi
    /\ segreader.kind = "nwb"
    /\ segreader.state = "constructed"
    /\ segreader.source = segfile

\* C15: a model written to a new file has a row per ROI in the order of its
\* ids, with Accepted 1 for the accepted ids and 0 for the others, and the
\* extractor constructed from that file has the model's roi_ids in order, its
\* accepted ids as accepted list and its other ids as rejected list.
C15_SegmentationRoundTrip ==
    ReadBackOfNewFile =>
        /\ segfile.content.tables[1].id = segext.segmentations[1].roi_ids
        /\ segfile.content.tables[1].Accepted = accepted_ids(segext.segmentations[1])
        /\ get_roi_ids(segreader) = segext.segmentations[1].roi_ids
        /\ SeqToSet(get_accepted_list(segreader)) = SeqToSet(segext.segmentations[1].accepted)
        /\ SeqToSet(get_rejected_list(segreader))
              = SeqToSet(segext.segmentations[1].roi_ids)
                   \ SeqToSet(segext.segmentations[1].accepted)

\* the accepted list and the rejected list part the ids
Partition(accepted, rejected, ids) ==
    /\ SeqToSet(accepted) \cap SeqToSet(rejected) = {}
    /\ SeqToSet(accepted) \subseteq SeqToSet(ids)
    /\ SeqToSet(rejected) \subseteq SeqToSet(ids)
    /\ SeqToSet(accepted) \cup SeqToSet(rejected) = SeqToSet(ids)

\* C16: the accepted list and the rejected list of a constructed segmentation
\* extractor, read from an NWB file or from a sima dataset, are disjoint, hold
\* ROI ids only, and together hold every ROI id.
C16_AcceptedRejectedPartition ==
    /\ (segreader.kind = "nwb" /\ segreader.state = "constructed") =>
          Partition(get_accepted_list(segreader), get_rejected_list(segreader),
                    get_roi_ids(segreader))
    /\ (segreader.kind = "sima" /\ segreader.state = "constructed") =>
          Partition(sima_accepted_list(segreader), sima_rejected_list(segreader),
                    sima_roi_idx(segreader))

\* C17: write_segmentation of a multi aggregate of two models to a new file
\* raises nothing and leaves a file with two imaging planes of different
\* names, a plane segmentation per plane holding that plane's ROIs, and for
\* each kind of trace a series per plane, the second with the plane's suffix,
\* each on the table of its plane.
C17_MultiPlaneWrite ==
    (/\ segcall.op = "write"
     /\ segext.multi
     /\ segcall.pre.state = "absent"
     /\ segcall.md.kind \in {"none", "list"}) =>
        /\ segcall.err = "none"
        /\ segfile.state = "nwb"
        /\ Len(segfile.content.imaging_planes) = 2
        /\ segfile.content.imaging_planes[1] # segfile.content.imaging_planes[2]
        /\ Len(segfile.content.tables) = 2
        /\ \A p \in 1..2 :
              /\ segfile.content.tables[p].id = segext.segmentations[p].roi_ids
              /\ \A i \in 1..Len(segext.segmentations[p].traces) :
                    \E k \in 1..Len(segfile.content.series) :
                       /\ segfile.content.series[k].name
                             = TraceName(segext.segmentations[p].traces[i], p - 1)
                       /\ segfile.content.series[k].rois = p

\* C18: constructed on an NWB file, the extractor fails when the file has no
\* processing module, uses the first when it has several, and when the file
\* has no plane segmentation it is constructed all the same, with image_masks
\* None.
C18_AmbiguousSources ==
    (/\ segreader.kind = "nwb"
     /\ segreader.state \in {"constructed", "failed"}
     /\ segreader.source.state = "nwb") =>
        /\ segreader.source.content.modules = <<>> => segreader.state = "failed"
        /\ (/\ Len(segreader.source.content.modules) > 1
            /\ segreader.source.content.modules[1] = "ophys"
            /\ segreader.source.content = [FileOfModel EXCEPT !.modules = <<"ophys", "behavior">>]) =>
              segreader.state = "constructed"
        /\ (segreader.source.content.modules # <<>> /\ segreader.source.content.tables = <<>>) =>
              /\ segreader.state = "constructed"
              /\ segreader.image_masks = "None"

\* C19: write_segmentation of a multi aggregate with a metadata that is no
\* list raises ValueError with no file opened and with what was at save_path
\* still there, unchanged, whatever file_overwrite is.
C19_RejectedBeforeIO ==
    (segcall.op = "write" /\ segext.multi /\ segcall.md.kind = "dict") =>
        /\ segcall.err = "ValueError"
        /\ segcall.opened = 0
        /\ segfile = segcall.pre

\* a single model is written, with the default metadata, where a file
\* write_segmentation wrote before is
WrittenOverOwnFile ==
    /\ segcall.op = "write"
    /\ ~segext.multi
    /\ segcall.md.kind = "none"
    /\ segcall.pre = [state |-> "nwb", content |-> FileOfModel]

\* the names of the response series of a file
SeriesNamesOf(nwbfile) == { nwbfile.series[k].name : k \in 1..Len(nwbfile.series) }

\* C21: write_segmentation on a file that write_segmentation wrote before
\* completes.  With file_overwrite false the image segmentation, the plane
\* segmentation, the imaging plane and the fluorescence interface of the file
\* are used again, none is made a second time, and a response series is made
\* only when the file has none of its name.  With file_overwrite true the file
\* holds what the model written in this call gives, and nothing else.
C21_RewriteResolvesExisting ==
    WrittenOverOwnFile =>
        /\ segcall.err = "none"
        /\ segfile.state = "nwb"
        /\ ~segcall.file_overwrite =>
              /\ segfile.content.interfaces = segcall.pre.content.interfaces
              /\ segfile.content.imaging_planes = segcall.pre.content.imaging_planes
              /\ Len(segfile.content.tables) = 1
              /\ Cardinality(SeriesNamesOf(segfile.content)) = Len(segfile.content.series)
              /\ SeriesNamesOf(segfile.content)
                    = SeriesNamesOf(segcall.pre.content)
                         \cup { TraceName(segext.segmentations[1].traces[i], 0) :
                                   i \in 1..Len(segext.segmentations[1].traces) }
        /\ segcall.file_overwrite =>
              /\ Len(segfile.content.tables) = 1
              /\ segfile.content.tables[1].id = segext.segmentations[1].roi_ids
              /\ SeriesNamesOf(segfile.content)
                    = { TraceName(segext.segmentations[1].traces[i], 0) :
                           i \in 1..Len(segext.segmentations[1].traces) }

============================================================================
